---------------------------- MODULE Spec2Model ----------------------------
(***************************************************************************)
(* Intraday ladder engine: the order ledger (order_manager.py), the        *)
(* position state machine and selection pass (strategy_engine.py) and the  *)
(* settings normalisation, modelled from the Python sources.               *)
(*                                                                         *)
(* Numbers.  Prices are integers.  The price levels the engine derives by  *)
(* a percentage (stop_loss, target, next_add_on) are kept multiplied by    *)
(* 100, so that  ltp * (1 - pct/100)  is the integer  ltp * (100 - pct)    *)
(* and every comparison of the source is exact.  Quotients that need not   *)
(* be integers (the average entry price, the P&L) are exact fractions      *)
(* [num, den] in lowest terms.                                             *)
(***************************************************************************)
EXTENDS Integers, Sequences, FiniteSets, TLC

VARIABLES
    orders,          \* OrderManager.orders: order id -> Order
    stock_orders,    \* OrderManager.stock_orders: symbol -> list of order ids
    now,             \* the wall clock in milliseconds, int(time.time() * 1000)
    settings,        \* LadderEngine.settings
    mult,            \* LadderEngine.add_on_mult, init_sl_mult, tsl_mult, target_mult
    active_stocks,   \* LadderEngine.active_stocks: symbol -> StockStatus
    started_symbols, \* LadderEngine.started_symbols
    running,         \* LadderEngine.running
    pnl_global,      \* LadderEngine.pnl_global
    broker_seq,      \* the broker: the next order id it hands out
    market_open,     \* the environment: LadderEngine.is_market_hours()
    settings_input,  \* history: the argument of the last update_settings call
    stopouts,        \* history: stop-outs of each symbol in this session
    inflight,        \* the operation the main thread is in the middle of
    reconnect_attempts, \* DhanClientWrapper.reconnect_attempts
    feed,            \* DhanClientWrapper.feed and the attributes subscribe sets
    loop_fault,      \* the task of start_strategy has ended with an exception
    rate_limiter,    \* RateLimiter: tokens, last_update, active_connections
    callers,         \* the threads that call the gateway: where each one is
    symbol_map,      \* DhanClientWrapper.symbol_map: trading symbol -> security id
    id_map,          \* DhanClientWrapper.id_map: security id -> trading symbol
    sid_cache        \* the lru_cache of get_security_id: symbol -> result

ledgerVars == <<orders, stock_orders, now>>

limiterVars == <<rate_limiter, callers>>

resolverVars == <<symbol_map, id_map, sid_cache>>

engineVars == <<settings, mult, active_stocks, started_symbols, running,
                pnl_global, broker_seq, market_open, settings_input, stopouts,
                inflight, reconnect_attempts, feed, loop_fault, limiterVars,
                resolverVars>>

vars == <<orders, stock_orders, now, settings, mult, active_stocks,
          started_symbols, running, pnl_global, broker_seq, market_open,
          settings_input, stopouts, inflight, reconnect_attempts, feed,
          loop_fault, rate_limiter, callers, symbol_map, id_map, sid_cache>>

-----------------------------------------------------------------------------
(* Bounds of the model *)

MaxOrders == 3       \* entries the per-symbol ledger indexes hold in total
MaxClock == 1        \* last millisecond the model's clock reaches
MaxCount == 6        \* largest count a settings update asks for
MaxTrades == 3       \* orders the engine creates in a run of the model
MaxSwingTrades == 7  \* the same, in the run of repeated stop-outs
MaxFilterTrades == 3 \* the same, in the run of the selection filters
MaxRaceTrades == 4   \* the same, in the run of the two threads
MaxReconnectClock == 600000 \* last millisecond the reconnecting clock reaches
MaxLadderTrades == 5 \* the same, in the run of one ladder
MaxRaceOrders == 2   \* entries of the indexes in the run of reader and writer
MaxCallers == 7      \* threads that call the gateway at the same time
MaxLimiterClock == 3000 \* last millisecond the rate limiter's clock reaches

-----------------------------------------------------------------------------
(* Inputs *)

Symbols == {"A", "B"}
Sides == {"BUY", "SELL"}

\* Milliseconds that pass between two reads of the clock: none, or some.
ClockSteps == {0, 1}

-----------------------------------------------------------------------------
(* Exact fractions *)

RECURSIVE GCD(_, _)
GCD(a, b) == IF b = 0 THEN a ELSE GCD(b, a % b)

Abs(x) == IF x < 0 THEN -x ELSE x

Max(a, b) == IF a >= b THEN a ELSE b

Min(a, b) == IF a <= b THEN a ELSE b

\* The fraction n / d (d > 0) in lowest terms.
Frac(n, d) ==
    LET g == GCD(Abs(n), d)
    IN  [num |-> n \div g, den |-> d \div g]

FracZero == [num |-> 0, den |-> 1]

FracGt(x, y) == x.num * y.den > y.num * x.den

-----------------------------------------------------------------------------
(* Order ledger: order_manager.py.  A ledger is the pair of dictionaries   *)
(* [orders, stock_orders]; a symbol without a key in stock_orders is the   *)
(* symbol with the empty list (the source reads both as "no orders").      *)

TempOrderId(symbol, ms) == [kind |-> "TEMP", symbol |-> symbol, n |-> ms]

BrokerOrderId(n) == [kind |-> "ORD", symbol |-> "", n |-> n]

\* The Order dataclass with its defaults (the creation time is left out: no
\* operation reads it).
NewOrder(order_id, symbol, transaction_type, quantity) ==
    [order_id |-> order_id, symbol |-> symbol,
     transaction_type |-> transaction_type, quantity |-> quantity,
     order_type |-> "MARKET", status |-> "PENDING",
     executed_price |-> 0, executed_quantity |-> 0,
     retry_count |-> 0, error_message |-> ""]

DictPut(d, k, v) == [x \in (DOMAIN d) \cup {k} |-> IF x = k THEN v ELSE d[x]]

DictPop(d, k) == [x \in (DOMAIN d) \ {k} |-> d[x]]

EmptyLedger == [orders |-> <<>>, stock_orders |-> [s \in Symbols |-> <<>>]]

create_order(L, symbol, transaction_type, quantity, ms) ==
    LET temp_order_id == TempOrderId(symbol, ms)
        order == NewOrder(temp_order_id, symbol, transaction_type, quantity)
    IN  [orders |-> DictPut(L.orders, temp_order_id, order),
         stock_orders |->
             [L.stock_orders EXCEPT ![symbol] = Append(@, temp_order_id)]]

\* update_order_status with the fill added to the order's filled quantity.
update_order_status_accumulating(L, order_id, status, price, qty, err) ==
    IF order_id \in DOMAIN L.orders
    THEN [L EXCEPT !.orders[order_id] =
              [@ EXCEPT !.status = status,
                        !.executed_price = price,
                        !.executed_quantity = @ + qty,
                        !.error_message = err]]
    ELSE L

update_order_status(L, order_id, status, price, qty, err) ==
    IF order_id \in DOMAIN L.orders
    THEN [L EXCEPT !.orders[order_id] =
              [@ EXCEPT !.status = status,
                        !.executed_price = price,
                        !.executed_quantity = qty,
                        !.error_message = err]]
    ELSE L

\* list.index: the first position holding x.
IndexOf(seq, x) == CHOOSE i \in 1..Len(seq) :
                       seq[i] = x /\ \A j \in 1..(i - 1) : seq[j] # x

InSeq(seq, x) == \E i \in 1..Len(seq) : seq[i] = x

\* replace_order_id with the new identifier put at the end of the symbol's
\* list instead of the place of the old one.
replace_order_id_appending(L, temp_id, actual_id) ==
    IF temp_id \in DOMAIN L.orders
    THEN LET order == [L.orders[temp_id] EXCEPT !.order_id = actual_id]
             symbol == order.symbol
         IN  [orders |-> DictPut(DictPop(L.orders, temp_id), actual_id, order),
              stock_orders |->
                  [L.stock_orders EXCEPT ![symbol] =
                       Append(SelectSeq(@, LAMBDA x : x # temp_id), actual_id)]]
    ELSE L

replace_order_id(L, temp_id, actual_id) ==
    IF temp_id \in DOMAIN L.orders
    THEN LET order == [L.orders[temp_id] EXCEPT !.order_id = actual_id]
             symbol == order.symbol
         IN  [orders |-> DictPut(DictPop(L.orders, temp_id), actual_id, order),
              stock_orders |->
                  IF InSeq(L.stock_orders[symbol], temp_id)
                  THEN [L.stock_orders EXCEPT
                            ![symbol][IndexOf(L.stock_orders[symbol], temp_id)] =
                                actual_id]
                  ELSE L.stock_orders]
    ELSE L

get_stock_orders(L, symbol) ==
    LET ids == SelectSeq(L.stock_orders[symbol],
                         LAMBDA oid : oid \in DOMAIN L.orders)
    IN  [i \in 1..Len(ids) |-> L.orders[ids[i]]]

get_executed_orders(L, symbol) ==
    SelectSeq(get_stock_orders(L, symbol), LAMBDA o : o.status = "EXECUTED")

RECURSIVE SumValue(_)
SumValue(os) ==
    IF os = <<>> THEN 0
    ELSE Head(os).executed_price * Head(os).executed_quantity + SumValue(Tail(os))

RECURSIVE SumQuantity(_)
SumQuantity(os) ==
    IF os = <<>> THEN 0 ELSE Head(os).executed_quantity + SumQuantity(Tail(os))

calculate_average_entry(L, symbol, transaction_type) ==
    LET executed_orders ==
            SelectSeq(get_executed_orders(L, symbol),
                      LAMBDA o : o.transaction_type = transaction_type)
        total_value == SumValue(executed_orders)
        total_quantity == SumQuantity(executed_orders)
    IN  IF executed_orders = <<>> THEN FracZero
        ELSE IF total_quantity > 0 THEN Frac(total_value, total_quantity)
        ELSE FracZero

get_total_quantity(L, symbol, transaction_type) ==
    SumQuantity(SelectSeq(get_executed_orders(L, symbol),
                          LAMBDA o : o.transaction_type = transaction_type))

clear_stock_orders(L, symbol) ==
    [orders |-> [oid \in {x \in DOMAIN L.orders :
                              ~InSeq(L.stock_orders[symbol], x)} |-> L.orders[oid]],
     stock_orders |-> [L.stock_orders EXCEPT ![symbol] = <<>>]]

-----------------------------------------------------------------------------
(* Settings: config.py StrategySettings, and LadderEngine.update_settings.  *)
(* Percentages are whole per cent.  Credentials and is_active are left out: *)
(* the engine does not read them.                                           *)

BaseSettings ==
    [no_of_add_ons |-> 2,
     add_on_percentage |-> 5,
     initial_stop_loss_pct |-> 15,
     trailing_stop_loss_pct |-> 20,
     target_percentage |-> 20,
     max_ladder_stocks |-> 2,
     top_n_gainers |-> 1,
     top_n_losers |-> 1,
     min_turnover_crores |-> 1,
     trade_capital |-> 200,
     profit_target_per_stock |-> 50,
     loss_limit_per_stock |-> 5]

\* The settings a session is run with.
SettingsInputs == {BaseSettings, [BaseSettings EXCEPT !.max_ladder_stocks = 1]}

\* _normalize_settings that clamps the counts but leaves their sum alone.
_normalize_settings_no_sum_rule(s) ==
    [s EXCEPT !.max_ladder_stocks = Max(1, s.max_ladder_stocks),
              !.top_n_gainers = Max(0, s.top_n_gainers),
              !.top_n_losers = Max(0, s.top_n_losers)]

_normalize_settings(s) ==
    LET max_ladders == Max(1, s.max_ladder_stocks)
        top_gainers0 == Max(0, s.top_n_gainers)
        top_losers0 == Max(0, s.top_n_losers)
        over == max_ladders > 0 /\ (top_gainers0 + top_losers0) > max_ladders
        top_losers == IF over THEN Max(0, max_ladders - top_gainers0)
                      ELSE top_losers0
        top_gainers == IF over /\ top_losers = 0 /\ top_gainers0 > max_ladders
                       THEN max_ladders ELSE top_gainers0
    IN  [s EXCEPT !.max_ladder_stocks = max_ladders,
                  !.top_n_gainers = top_gainers,
                  !.top_n_losers = top_losers]

\* _update_multipliers: pct / 100, kept as the whole per cent.
_update_multipliers(s) ==
    [add_on_mult |-> s.add_on_percentage,
     init_sl_mult |-> s.initial_stop_loss_pct,
     tsl_mult |-> s.trailing_stop_loss_pct,
     target_mult |-> s.target_percentage]

-----------------------------------------------------------------------------
(* Position state machine: strategy_engine.py LadderEngine.  An operation   *)
(* works on an engine state E, the record of the fields it reads and        *)
(* writes, and yields the set of states it can end in: one for every        *)
(* answer of the broker and every reading of the clock on the way.  E also  *)
(* names the answers the broker gives (responses) and the milliseconds that *)
(* pass between two readings of the clock (clock_steps).                    *)

\* dhan_client.place_order as the engine sees it: None (not connected, no
\* security id, an exception), a failure result, or a result with an orderId.
PlaceResponses == {"none", "failure", "ok"}

\* Between two orders of the engine lies a call to the broker, and the clock
\* moves on; calls within one millisecond are the ledger specification's.
EngineClockSteps == {1}

\* The candidate mapping symbol -> reference close, in the order of its keys.
Candidates == [s \in Symbols |-> 100]
SymbolOrder == <<"A", "B">>

\* Ticks the feed delivers: symbol, last traded price and volume.  The
\* reference close is 100, so a price is a gain or a loss of 10 or 20 per
\* cent; the tick at 80 comes with a volume too thin for the turnover filter.
Prices == {80, 90, 110, 120}
Ticks ==
    {[symbol |-> "A", ltp |-> p, volume |-> 1000000] : p \in Prices \ {80}}
        \cup {[symbol |-> "A", ltp |-> 80, volume |-> 100000],
              [symbol |-> "B", ltp |-> 120, volume |-> 1000000]}

NewStockStatus(symbol, prev_close) ==
    [symbol |-> symbol, mode |-> "NONE", ltp |-> 0, change_pct |-> FracZero,
     pnl |-> FracZero, status |-> "IDLE", entry_price |-> 0, quantity |-> 0,
     ladder_level |-> 0, next_add_on |-> 0, stop_loss |-> 0, target |-> 0,
     prev_close |-> prev_close, turnover |-> 0, high_watermark |-> 0,
     order_ids |-> <<>>, avg_entry_price |-> FracZero]

LedgerOf(E) == [orders |-> E.orders, stock_orders |-> E.stock_orders]

WithLedger(E, L) == [E EXCEPT !.orders = L.orders, !.stock_orders = L.stock_orders]

\* The id the engine files the order under: response.get('orderId', temp id).
ResponseOrderId(E, temp_id, resp) ==
    IF resp = "ok" THEN BrokerOrderId(E.broker_seq) ELSE temp_id

\* replace_order_id, then update_order_status(EXECUTED) at the last price.
RecordExecuted(E, temp_id, resp, price, qty) ==
    LET order_id == ResponseOrderId(E, temp_id, resp)
        L1 == replace_order_id(LedgerOf(E), temp_id, order_id)
        L2 == update_order_status(L1, order_id, "EXECUTED", price, qty, "")
    IN  [WithLedger(E, L2) EXCEPT
             !.broker_seq = IF resp = "ok" THEN @ + 1 ELSE @]

\* create_order at the millisecond the clock shows dt after the last reading.
Created(E, symbol, transaction_type, qty, dt) ==
    [WithLedger(E, create_order(LedgerOf(E), symbol, transaction_type, qty,
                                E.now + dt))
        EXCEPT !.now = E.now + dt]

\* max(1, int(trade_capital / price)) if price > 0 else 1
OrderQuantity(E, price) ==
    IF price > 0 THEN Max(1, E.settings.trade_capital \div price) ELSE 1

\* close_position that clears the quantity and leaves the mode.
ClosedWithModeKept(E, s, dt, resp) ==
    LET stock == E.active_stocks[s]
        transaction_type == IF stock.mode = "LONG" THEN "SELL" ELSE "BUY"
        E1 == Created(E, s, transaction_type, stock.quantity, dt)
        temp_id == TempOrderId(s, E1.now)
        E2 == IF resp # "none"
              THEN RecordExecuted(E1, temp_id, resp, stock.ltp, stock.quantity)
              ELSE E1
    IN  [E2 EXCEPT !.active_stocks[s].quantity = 0]

\* close_position with a position held: the order, the broker's answer, and
\* the position cleared.
ClosedWith(E, s, dt, resp) ==
    LET stock == E.active_stocks[s]
        transaction_type == IF stock.mode = "LONG" THEN "SELL" ELSE "BUY"
        E1 == Created(E, s, transaction_type, stock.quantity, dt)
        temp_id == TempOrderId(s, E1.now)
        E2 == IF resp # "none"
              THEN RecordExecuted(E1, temp_id, resp, stock.ltp, stock.quantity)
              ELSE E1
    IN  [E2 EXCEPT !.active_stocks[s].quantity = 0,
                   !.active_stocks[s].mode = "NONE"]

close_position(E, s) ==
    IF E.active_stocks[s].quantity > 0
    THEN {ClosedWith(E, s, dt, resp) : dt \in E.clock_steps, resp \in E.responses}
    ELSE {[E EXCEPT !.active_stocks[s].quantity = 0,
                    !.active_stocks[s].mode = "NONE"]}

\* +1 for a long ladder, -1 for a short one: the side a level lies on.
Sign(mode) == IF mode = "LONG" THEN 1 ELSE -1

\* price * (1 + sign * pct / 100), times 100.
Level(price, sign, pct) == price * (100 + sign * pct)

\* The session cap of start_long_ladder and start_short_ladder.
SessionCapReached(E, s) ==
    /\ s \notin E.started_symbols
    /\ Cardinality(E.started_symbols) >= E.settings.max_ladder_stocks

\* A ladder start that does not record the symbol as started.
StartedWithUnrecorded(E, s, mode, dt, resp) ==
    LET stock == E.active_stocks[s]
        qty == OrderQuantity(E, stock.ltp)
        transaction_type == IF mode = "LONG" THEN "BUY" ELSE "SELL"
        E1 == Created(E, s, transaction_type, qty, dt)
        temp_id == TempOrderId(s, E1.now)
        E3 == IF resp # "none"
              THEN [RecordExecuted(E1, temp_id, resp, stock.ltp, qty) EXCEPT
                        !.active_stocks[s].order_ids =
                            Append(@, ResponseOrderId(E1, temp_id, resp))]
              ELSE E1
    IN  IF resp = "failure" THEN E1
        ELSE [E3 EXCEPT
                 !.active_stocks[s].mode = mode,
                 !.active_stocks[s].status = "ACTIVE",
                 !.active_stocks[s].ladder_level = 1,
                 !.active_stocks[s].entry_price = stock.ltp,
                 !.active_stocks[s].avg_entry_price = Frac(stock.ltp, 1),
                 !.active_stocks[s].quantity = qty,
                 !.active_stocks[s].high_watermark = stock.ltp,
                 !.active_stocks[s].stop_loss =
                     Level(stock.ltp, -Sign(mode), E.mult.init_sl_mult),
                 !.active_stocks[s].target =
                     Level(stock.ltp, Sign(mode), E.mult.target_mult),
                 !.active_stocks[s].next_add_on =
                     Level(stock.ltp, Sign(mode), E.mult.add_on_mult)]

\* start_long_ladder / start_short_ladder past the session cap.
StartedWith(E, s, mode, dt, resp) ==
    LET stock == E.active_stocks[s]
        qty == OrderQuantity(E, stock.ltp)
        transaction_type == IF mode = "LONG" THEN "BUY" ELSE "SELL"
        E1 == Created(E, s, transaction_type, qty, dt)
        temp_id == TempOrderId(s, E1.now)
        E2 == [E1 EXCEPT !.started_symbols = @ \cup {s}]
        E3 == IF resp # "none"
              THEN [RecordExecuted(E2, temp_id, resp, stock.ltp, qty) EXCEPT
                        !.active_stocks[s].order_ids =
                            Append(@, ResponseOrderId(E2, temp_id, resp))]
              ELSE E2
    IN  IF resp = "failure" THEN E1
        ELSE [E3 EXCEPT
                 !.active_stocks[s].mode = mode,
                 !.active_stocks[s].status = "ACTIVE",
                 !.active_stocks[s].ladder_level = 1,
                 !.active_stocks[s].entry_price = stock.ltp,
                 !.active_stocks[s].avg_entry_price = Frac(stock.ltp, 1),
                 !.active_stocks[s].quantity = qty,
                 !.active_stocks[s].high_watermark = stock.ltp,
                 !.active_stocks[s].stop_loss =
                     Level(stock.ltp, -Sign(mode), E.mult.init_sl_mult),
                 !.active_stocks[s].target =
                     Level(stock.ltp, Sign(mode), E.mult.target_mult),
                 !.active_stocks[s].next_add_on =
                     Level(stock.ltp, Sign(mode), E.mult.add_on_mult)]

start_ladder(E, s, mode) ==
    IF SessionCapReached(E, s) THEN {E}
    ELSE {StartedWith(E, s, mode, dt, resp) :
              dt \in E.clock_steps, resp \in E.responses}

start_long_ladder(E, s) == start_ladder(E, s, "LONG")

start_short_ladder(E, s) == start_ladder(E, s, "SHORT")

AddedOnWith(E, s, mode, dt, resp) ==
    LET stock == E.active_stocks[s]
        qty == OrderQuantity(E, stock.entry_price)
        transaction_type == IF mode = "LONG" THEN "BUY" ELSE "SELL"
        E1 == Created(E, s, transaction_type, qty, dt)
        temp_id == TempOrderId(s, E1.now)
    IN  IF resp \in {"none", "failure"} THEN E1
        ELSE [RecordExecuted(E1, temp_id, resp, stock.ltp, qty) EXCEPT
                 !.active_stocks[s].quantity = @ + qty,
                 !.active_stocks[s].ladder_level = @ + 1,
                 !.active_stocks[s].order_ids =
                     Append(@, ResponseOrderId(E1, temp_id, resp)),
                 !.active_stocks[s].next_add_on =
                     Level(stock.ltp, Sign(mode), E.mult.add_on_mult)]

execute_add_on(E, s, mode) ==
    {AddedOnWith(E, s, mode, dt, resp) : dt \in E.clock_steps, resp \in E.responses}

\* Step 4 with the candidate stop adopted whatever the stop was.
TrailingStopUnconditional(E, s) ==
    LET stock == E.active_stocks[s]
        dynamic_sl == Level(stock.high_watermark, -Sign(stock.mode), E.mult.tsl_mult)
    IN  IF stock.high_watermark > 0
        THEN [E EXCEPT !.active_stocks[s].stop_loss = dynamic_sl]
        ELSE E

\* Step 4 of _process_long_position / _process_short_position: the trailing
\* stop from the high watermark, adopted only if it tightens the stop.
TrailingStop(E, s) ==
    LET stock == E.active_stocks[s]
        dynamic_sl == Level(stock.high_watermark, -Sign(stock.mode), E.mult.tsl_mult)
        tightens == IF stock.mode = "LONG"
                    THEN dynamic_sl > stock.stop_loss
                    ELSE dynamic_sl < stock.stop_loss \/ stock.stop_loss = 0
    IN  IF stock.high_watermark > 0 /\ tightens
        THEN [E EXCEPT !.active_stocks[s].stop_loss = dynamic_sl]
        ELSE E

WithStatus(Es, s, status) ==
    {[e EXCEPT !.active_stocks[s].status = status] : e \in Es}

\* The stop-out branch: close this leg, then start the opposite ladder.
CloseAndFlip(E, s, opposite) ==
    UNION {start_ladder(e, s, opposite) :
               e \in close_position([E EXCEPT !.stopouts[s] = @ + 1], s)}

\* Step 3 that does not ask whether the ladder has room.
AddOnStepAnyLevel(E, s) ==
    LET stock == E.active_stocks[s]
        passed == IF stock.mode = "LONG"
                  THEN stock.ltp * 100 >= stock.next_add_on
                  ELSE stock.ltp * 100 <= stock.next_add_on
    IN  IF passed THEN execute_add_on(E, s, stock.mode) ELSE {E}

\* Step 3: the add-on, when the ladder has room and the trigger is passed.
AddOnStep(E, s) ==
    LET stock == E.active_stocks[s]
        passed == IF stock.mode = "LONG"
                  THEN stock.ltp * 100 >= stock.next_add_on
                  ELSE stock.ltp * 100 <= stock.next_add_on
    IN  IF stock.ladder_level < E.settings.no_of_add_ons /\ passed
        THEN execute_add_on(E, s, stock.mode)
        ELSE {E}

_process_long_position(E, s) ==
    LET stock == E.active_stocks[s]
    IN  IF stock.ltp * 100 >= stock.target
        THEN WithStatus(close_position(E, s), s, "CLOSED_PROFIT")
        ELSE IF stock.ltp * 100 <= stock.stop_loss
        THEN CloseAndFlip(E, s, "SHORT")
        ELSE {TrailingStop(e, s) : e \in AddOnStep(E, s)}

_process_short_position(E, s) ==
    LET stock == E.active_stocks[s]
    IN  IF stock.ltp * 100 <= stock.target
        THEN WithStatus(close_position(E, s), s, "CLOSED_PROFIT")
        ELSE IF stock.ltp * 100 >= stock.stop_loss
        THEN CloseAndFlip(E, s, "LONG")
        ELSE {TrailingStop(e, s) : e \in AddOnStep(E, s)}

IsClosedStatus(status) ==
    status \in {"STOPPED", "CLOSED_PROFIT", "CLOSED_LOSS", "CLOSED_MANUAL",
                "CLOSED_GlobalLimit", "CLOSED_EMERGENCY"}

\* process_tick up to the trading logic: price, turnover, percent change,
\* high watermark, and the P&L from the ledger's average entry price.
TickUpdate(stock, L, ltp, volume) ==
    LET s1 == [stock EXCEPT
                  !.ltp = ltp,
                  !.turnover = IF volume > 0 THEN volume * ltp ELSE @,
                  !.change_pct = IF stock.prev_close > 0
                                 THEN Frac((ltp - stock.prev_close) * 100,
                                           stock.prev_close)
                                 ELSE @]
        s2 == IF s1.mode = "LONG" /\ ltp > s1.high_watermark
              THEN [s1 EXCEPT !.high_watermark = ltp]
              ELSE IF s1.mode = "SHORT"
                      /\ (s1.high_watermark = 0 \/ ltp < s1.high_watermark)
              THEN [s1 EXCEPT !.high_watermark = ltp]
              ELSE s1
        avg_price == calculate_average_entry(
                         L, stock.symbol,
                         IF s2.mode = "LONG" THEN "BUY" ELSE "SELL")
    IN  IF s2.mode # "NONE" /\ s2.quantity > 0 /\ avg_price.num > 0
        THEN [s2 EXCEPT
                 !.avg_entry_price = avg_price,
                 !.pnl = IF s2.mode = "LONG"
                         THEN Frac((ltp * avg_price.den - avg_price.num)
                                       * s2.quantity, avg_price.den)
                         ELSE Frac((avg_price.num - ltp * avg_price.den)
                                       * s2.quantity, avg_price.den)]
        ELSE s2

\* abs(stock.pnl) > limit
PnlBeyond(pnl, limit) == Abs(pnl.num) > limit * pnl.den

\* The per-stock limit at the end of process_tick.
PerStockLimit(E, s) ==
    IF PnlBeyond(E.active_stocks[s].pnl, E.settings.profit_target_per_stock)
    THEN WithStatus(close_position(E, s), s, "CLOSED_GlobalLimit")
    ELSE {E}

\* process_tick that does not ask whether the engine is running.
process_tick_ignoring_running(E, s, ltp, volume) ==
    IF s \notin DOMAIN E.active_stocks THEN {E}
    ELSE IF IsClosedStatus(E.active_stocks[s].status) THEN {E}
    ELSE LET E1 == [E EXCEPT !.active_stocks[s] =
                        TickUpdate(@, LedgerOf(E), ltp, volume)]
             traded == IF E1.active_stocks[s].mode = "LONG"
                       THEN _process_long_position(E1, s)
                       ELSE IF E1.active_stocks[s].mode = "SHORT"
                       THEN _process_short_position(E1, s)
                       ELSE {E1}
         IN  UNION {PerStockLimit(e, s) : e \in traded}

process_tick(E, s, ltp, volume) ==
    IF ~E.running \/ s \notin DOMAIN E.active_stocks THEN {E}
    ELSE IF IsClosedStatus(E.active_stocks[s].status) THEN {E}
    ELSE LET E1 == [E EXCEPT !.active_stocks[s] =
                        TickUpdate(@, LedgerOf(E), ltp, volume)]
             traded == IF E1.active_stocks[s].mode = "LONG"
                       THEN _process_long_position(E1, s)
                       ELSE IF E1.active_stocks[s].mode = "SHORT"
                       THEN _process_short_position(E1, s)
                       ELSE {E1}
         IN  UNION {PerStockLimit(e, s) : e \in traded}

-----------------------------------------------------------------------------
(* The selection pass and the control loop *)

FracAdd(x, y) == Frac(x.num * y.den + y.num * x.den, x.den * y.den)

RECURSIVE SumPnl(_, _)
SumPnl(stocks, S) ==
    IF S = {} THEN FracZero
    ELSE LET s == CHOOSE x \in S : TRUE
         IN  FracAdd(stocks[s].pnl, SumPnl(stocks, S \ {s}))

\* The values of active_stocks in the order of its keys.
StockList(E) ==
    SelectSeq(SymbolOrder, LAMBDA s : s \in DOMAIN E.active_stocks)

ActiveCount(E, mode) ==
    Cardinality({s \in DOMAIN E.active_stocks :
                    /\ E.active_stocks[s].quantity > 0
                    /\ E.active_stocks[s].mode = mode})

\* list.sort(key = change_pct, reverse = desc): a stable insertion sort.
ComesBefore(E, a, b, desc) ==
    IF desc
    THEN FracGt(E.active_stocks[a].change_pct, E.active_stocks[b].change_pct)
    ELSE FracGt(E.active_stocks[b].change_pct, E.active_stocks[a].change_pct)

RECURSIVE InsertSorted(_, _, _, _)
InsertSorted(E, sorted, x, desc) ==
    IF sorted = <<>> THEN <<x>>
    ELSE IF ComesBefore(E, x, Head(sorted), desc) THEN <<x>> \o sorted
    ELSE <<Head(sorted)>> \o InsertSorted(E, Tail(sorted), x, desc)

RECURSIVE SortByChange(_, _, _)
SortByChange(E, seq, desc) ==
    IF seq = <<>> THEN <<>>
    ELSE InsertSorted(E, SortByChange(E, SubSeq(seq, 1, Len(seq) - 1), desc),
                      seq[Len(seq)], desc)

\* seq[:n]
Prefix(seq, n) == SubSeq(seq, 1, Min(n, Len(seq)))

\* for stock in selected: self.start_..._ladder(stock)
RECURSIVE StartAll(_, _, _)
StartAll(Es, selected, mode) ==
    IF selected = <<>> THEN Es
    ELSE StartAll(UNION {start_ladder(e, Head(selected), mode) : e \in Es},
                  Tail(selected), mode)

\* The selection filters without the turnover threshold.
IdleStocksAnyTurnover(E) ==
    SelectSeq(StockList(E),
              LAMBDA s : /\ E.active_stocks[s].status = "IDLE"
                         /\ E.active_stocks[s].ltp > 0)

\* The filters of the selection pass: idle, priced, and traded enough.
IdleStocks(E) ==
    SelectSeq(StockList(E),
              LAMBDA s : /\ E.active_stocks[s].status = "IDLE"
                         /\ E.active_stocks[s].ltp > 0
                         /\ E.active_stocks[s].turnover >=
                                E.settings.min_turnover_crores * 10000000)

\* The selection pass that takes the configured counts for what is needed.
select_top_movers_not_counting_active(E) ==
    LET max_ladders == Max(1, E.settings.max_ladder_stocks)
        idle_stocks == IdleStocks(E)
        long_candidates ==
            SortByChange(E, SelectSeq(idle_stocks,
                LAMBDA s : E.active_stocks[s].change_pct.num > 0), TRUE)
        short_candidates ==
            SortByChange(E, SelectSeq(idle_stocks,
                LAMBDA s : E.active_stocks[s].change_pct.num < 0), FALSE)
    IN  IF Cardinality(E.started_symbols) >= max_ladders THEN {E}
        ELSE StartAll(StartAll({E}, Prefix(long_candidates, E.settings.top_n_gainers),
                               "LONG"),
                      Prefix(short_candidates, E.settings.top_n_losers), "SHORT")

select_top_movers(E) ==
    LET active_longs == ActiveCount(E, "LONG")
        active_shorts == ActiveCount(E, "SHORT")
        active_total == active_longs + active_shorts
        max_ladders == Max(1, E.settings.max_ladder_stocks)
        need_longs0 == Max(0, E.settings.top_n_gainers - active_longs)
        need_shorts0 == Max(0, E.settings.top_n_losers - active_shorts)
        remaining_capacity == Max(0, max_ladders - active_total)
        over == need_longs0 + need_shorts0 > remaining_capacity
        need_longs == IF over THEN Min(need_longs0, remaining_capacity)
                      ELSE need_longs0
        need_shorts == IF over
                       THEN Min(need_shorts0, Max(0, remaining_capacity - need_longs))
                       ELSE need_shorts0
        idle_stocks == IdleStocks(E)
        long_candidates ==
            SortByChange(E, SelectSeq(idle_stocks,
                LAMBDA s : E.active_stocks[s].change_pct.num > 0), TRUE)
        short_candidates ==
            SortByChange(E, SelectSeq(idle_stocks,
                LAMBDA s : E.active_stocks[s].change_pct.num < 0), FALSE)
        top_gainers == IF need_longs > 0 THEN Prefix(long_candidates, need_longs)
                       ELSE <<>>
        top_losers == IF need_shorts > 0 THEN Prefix(short_candidates, need_shorts)
                      ELSE <<>>
    IN  IF Cardinality(E.started_symbols) >= max_ladders THEN {E}
        ELSE IF active_total >= max_ladders THEN {E}
        ELSE IF need_longs <= 0 /\ need_shorts <= 0 THEN {E}
        ELSE IF idle_stocks = <<>> THEN {E}
        ELSE StartAll(StartAll({E}, top_gainers, "LONG"), top_losers, "SHORT")

\* for stock in selected: a ladder started without asking for the session cap.
RECURSIVE StartAllUncapped(_, _, _)
StartAllUncapped(Es, selected, mode) ==
    IF selected = <<>> THEN Es
    ELSE StartAllUncapped(
             UNION {{StartedWith(e, Head(selected), mode, dt, resp) :
                         dt \in e.clock_steps, resp \in e.responses} : e \in Es},
             Tail(selected), mode)

\* calculate_pnl with a selection pass that knows no cap: the configured
\* counts of gainers and losers are started whatever is open or was started.
calculate_pnl_uncapped(E) ==
    LET E0 == [E EXCEPT !.pnl_global = SumPnl(E.active_stocks, DOMAIN E.active_stocks)]
        idle_stocks == IdleStocks(E0)
        long_candidates ==
            SortByChange(E0, SelectSeq(idle_stocks,
                LAMBDA s : E0.active_stocks[s].change_pct.num > 0), TRUE)
        short_candidates ==
            SortByChange(E0, SelectSeq(idle_stocks,
                LAMBDA s : E0.active_stocks[s].change_pct.num < 0), FALSE)
    IN  StartAllUncapped(
            StartAllUncapped({E0}, Prefix(long_candidates, E0.settings.top_n_gainers),
                             "LONG"),
            Prefix(short_candidates, E0.settings.top_n_losers), "SHORT")

calculate_pnl(E) ==
    select_top_movers(
        [E EXCEPT !.pnl_global = SumPnl(E.active_stocks, DOMAIN E.active_stocks)])

\* square_off_all: every open position closed, in the order of the keys.
RECURSIVE SquareOff(_, _)
SquareOff(Es, seq) ==
    IF seq = <<>> THEN Es
    ELSE LET s == Head(seq)
             step(e) == IF e.active_stocks[s].mode # "NONE"
                           /\ e.active_stocks[s].quantity > 0
                        THEN WithStatus(close_position(e, s), s, "CLOSED_EMERGENCY")
                        ELSE {e}
         IN  SquareOff(UNION {step(e) : e \in Es}, Tail(seq))

square_off_all(E) == SquareOff({E}, StockList(E))

-----------------------------------------------------------------------------
(* The ledger as the state holds it *)

Ledger == [orders |-> orders, stock_orders |-> stock_orders]

RECURSIVE SumLen(_, _)
SumLen(f, S) ==
    IF S = {} THEN 0
    ELSE LET s == CHOOSE x \in S : TRUE IN Len(f[s]) + SumLen(f, S \ {s})

\* Entries in the per-symbol indexes.
IndexSize(L) == SumLen(L.stock_orders, Symbols)

SetLedger(L) ==
    /\ orders' = L.orders
    /\ stock_orders' = L.stock_orders

-----------------------------------------------------------------------------
(* The gateway: dhan_client.py.  Tokens are counted in thousandths and time *)
(* in milliseconds, so that the refill of max_requests_per_second tokens    *)
(* per second is elapsed * max_requests_per_second thousandths.             *)

max_requests_per_second == 1
max_connections == 5
max_retries == 3

\* The threads that call the gateway, and a thread that is not in a call.
Callers == 1..MaxCallers

Idle == [pc |-> "idle", retries |-> 0, wake |-> 0, result |-> "none"]

\* RateLimiter.__init__: a full bucket, no connection held.
NewRateLimiter ==
    [tokens |-> 1000 * max_requests_per_second, last_update |-> 0,
     active_connections |-> 0]

\* The refill at the head of the loop of acquire, at the time t.
Refilled(R, t) ==
    [R EXCEPT !.tokens = Min(1000 * max_requests_per_second,
                             @ + (t - R.last_update) * max_requests_per_second),
              !.last_update = t]

\* One turn of the loop of acquire with a refill that has no ceiling.
acquire_uncapped(R, t) ==
    LET F == [R EXCEPT !.tokens = @ + (t - R.last_update) * max_requests_per_second,
                       !.last_update = t]
    IN  IF F.tokens >= 1000
        THEN [limiter |-> [F EXCEPT !.tokens = @ - 1000], acquired |-> TRUE,
              wait_time |-> 0]
        ELSE [limiter |-> F, acquired |-> FALSE,
              wait_time |-> (1000 - F.tokens) \div max_requests_per_second]

\* One turn of the loop of acquire at the time t, under the lock: the bucket
\* afterwards, whether the call returns True, and otherwise the time to sleep.
acquire(R, t) ==
    LET F == Refilled(R, t)
    IN  IF F.tokens >= 1000
        THEN [limiter |-> [F EXCEPT !.tokens = @ - 1000], acquired |-> TRUE,
              wait_time |-> 0]
        ELSE [limiter |-> F, acquired |-> FALSE,
              wait_time |-> (1000 - F.tokens) \div max_requests_per_second]

\* One turn of the loop of acquire_connection, under the lock.
acquire_connection(R) ==
    IF R.active_connections < max_connections
    THEN [R EXCEPT !.active_connections = @ + 1]
    ELSE R

\* release_connection that gives no slot back.
release_connection_keeping(R) == R

release_connection(R) ==
    [R EXCEPT !.active_connections = Max(0, @ - 1)]

\* DhanClientWrapper.__init__: no feed, and neither _callback nor
\* _instruments set.
NoFeed == [state |-> "none", attrs |-> {}]

\* subscribe of a logged-in client with symbols it can map: the feed is built
\* and its thread started, and _callback is stored.
subscribe(F) == [state |-> "open", attrs |-> F.attrs \cup {"_callback"}]

-----------------------------------------------------------------------------
(* The engine as the state holds it, and its handlers *)

Engine ==
    [orders |-> orders, stock_orders |-> stock_orders, now |-> now,
     settings |-> settings, mult |-> mult, active_stocks |-> active_stocks,
     started_symbols |-> started_symbols, running |-> running,
     pnl_global |-> pnl_global, broker_seq |-> broker_seq,
     market_open |-> market_open, settings_input |-> settings_input,
     stopouts |-> stopouts, inflight |-> inflight,
     reconnect_attempts |-> reconnect_attempts, feed |-> feed,
     loop_fault |-> loop_fault,
     responses |-> PlaceResponses, clock_steps |-> EngineClockSteps]

SetEngine(E) ==
    /\ orders' = E.orders
    /\ stock_orders' = E.stock_orders
    /\ now' = E.now
    /\ settings' = E.settings
    /\ mult' = E.mult
    /\ active_stocks' = E.active_stocks
    /\ started_symbols' = E.started_symbols
    /\ running' = E.running
    /\ pnl_global' = E.pnl_global
    /\ broker_seq' = E.broker_seq
    /\ market_open' = E.market_open
    /\ settings_input' = E.settings_input
    /\ stopouts' = E.stopouts
    /\ inflight' = E.inflight
    /\ reconnect_attempts' = E.reconnect_attempts
    /\ feed' = E.feed
    /\ loop_fault' = E.loop_fault
    /\ UNCHANGED <<limiterVars, resolverVars>>

\* The main thread is between two operations.
NoOperation ==
    [op |-> "none", symbol |-> "", mode |-> "NONE", qty |-> 0, pc |-> 0,
     order_id |-> TempOrderId("", 0)]

WithinBounds(E) == IndexSize(LedgerOf(E)) <= MaxTrades

\* main.py at startup: the engine constructed, the stored settings applied
\* through update_settings, the broker logged in, the market open.
Init ==
    /\ orders = EmptyLedger.orders
    /\ stock_orders = EmptyLedger.stock_orders
    /\ now = 0
    /\ settings_input = BaseSettings
    /\ settings = _normalize_settings(BaseSettings)
    /\ mult = _update_multipliers(_normalize_settings(BaseSettings))
    /\ active_stocks = <<>>
    /\ started_symbols = {}
    /\ running = FALSE
    /\ pnl_global = FracZero
    /\ broker_seq = 1
    /\ market_open = TRUE
    /\ stopouts = [s \in Symbols |-> 0]
    /\ inflight = NoOperation
    /\ reconnect_attempts = 0
    /\ feed = NoFeed
    /\ loop_fault = FALSE
    /\ rate_limiter = NewRateLimiter
    /\ callers = [c \in Callers |-> Idle]
    /\ symbol_map = <<>>
    /\ id_map = <<>>
    /\ sid_cache = <<>>

\* update_settings: normalise, store, recompute the multipliers.
update_settings(new_settings) ==
    /\ settings_input' = new_settings
    /\ settings' = _normalize_settings(new_settings)
    /\ mult' = _update_multipliers(_normalize_settings(new_settings))
    /\ UNCHANGED <<ledgerVars, active_stocks, started_symbols, running,
                   pnl_global, broker_seq, market_open, stopouts, inflight,
                   reconnect_attempts, feed, loop_fault, limiterVars, resolverVars>>

\* POST /api/settings.
UpdateSettings == \E raw \in SettingsInputs : update_settings(raw)

\* POST /api/start and start_strategy up to its main loop.
StartStrategy ==
    /\ ~running
    /\ market_open
    /\ running' = TRUE
    /\ started_symbols' = {}
    /\ active_stocks' = [s \in Symbols |-> NewStockStatus(s, Candidates[s])]
    /\ stopouts' = [s \in Symbols |-> 0]
    /\ feed' = subscribe(feed)
    /\ loop_fault' = FALSE
    /\ UNCHANGED <<ledgerVars, settings, mult, pnl_global, broker_seq,
                   market_open, settings_input, inflight, reconnect_attempts,
                   limiterVars, resolverVars>>

\* The branch of the main loop outside market hours: square_off_all, then
\* self.dhan_client.stop_feed().  DhanClientWrapper defines no stop_feed, so
\* the call raises AttributeError: `self.running = False` is not reached and
\* the exception ends the task of start_strategy.
MarketCloseBranch(E) ==
    {[x EXCEPT !.loop_fault = TRUE] : x \in square_off_all(E)}

\* One turn of the main loop of start_strategy, in the environment E names.
ControlLoopOf(E, max_trades) ==
    /\ running
    /\ ~loop_fault
    /\ \E e \in calculate_pnl(E) :
           \E f \in (IF ~market_open THEN MarketCloseBranch(e) ELSE {e}) :
               /\ IndexSize(LedgerOf(f)) <= max_trades
               /\ SetEngine(f)

ControlLoop == ControlLoopOf(Engine, MaxTrades)

\* The feed delivers one of the ticks: process_tick.
TickOf(E, ticks, max_trades) ==
    \E t \in ticks :
        /\ running
        /\ t.symbol \in DOMAIN active_stocks
        /\ ~IsClosedStatus(active_stocks[t.symbol].status)
        /\ \E e \in process_tick(E, t.symbol, t.ltp, t.volume) :
               /\ IndexSize(LedgerOf(e)) <= max_trades
               /\ SetEngine(e)

Tick == TickOf(Engine, Ticks, MaxTrades)

\* POST /api/close-position/{symbol}.
ManualClose ==
    \E s \in Symbols :
        /\ s \in DOMAIN active_stocks
        /\ active_stocks[s].mode # "NONE"
        /\ \E e \in WithStatus(close_position(Engine, s), s, "CLOSED_MANUAL") :
               /\ WithinBounds(e)
               /\ SetEngine(e)

\* POST /api/square-off-all.
SquareOffAll ==
    \E e \in square_off_all(Engine) :
        /\ WithinBounds(e)
        /\ SetEngine(e)

\* POST /api/stop.
StopEngine ==
    /\ running' = FALSE
    /\ UNCHANGED <<ledgerVars, settings, mult, active_stocks, started_symbols,
                   pnl_global, broker_seq, market_open, settings_input, stopouts,
                   inflight, reconnect_attempts, feed, loop_fault, limiterVars,
                   resolverVars>>

\* The wall clock leaves the market hours.
MarketCloses ==
    /\ market_open
    /\ market_open' = FALSE
    /\ UNCHANGED <<ledgerVars, settings, mult, active_stocks, started_symbols,
                   running, pnl_global, broker_seq, settings_input, stopouts,
                   inflight, reconnect_attempts, feed, loop_fault, limiterVars,
                   resolverVars>>

Next ==
    \/ UpdateSettings
    \/ StartStrategy
    \/ ControlLoop
    \/ Tick
    \/ ManualClose
    \/ SquareOffAll
    \/ StopEngine
    \/ MarketCloses

Spec == Init /\ [][Next]_vars

-----------------------------------------------------------------------------
(* One symbol stopped out again and again: the broker accepts every order   *)
(* and the price of A swings between 90 and 110.                            *)

Accepting(E) == [E EXCEPT !.responses = {"ok"}]

SwingTicks == {[symbol |-> "A", ltp |-> p, volume |-> 1000000] : p \in {90, 110}}
                  \cup {[symbol |-> "B", ltp |-> 120, volume |-> 1000000]}

SwingControlLoop == ControlLoopOf(Accepting(Engine), MaxSwingTrades)

SwingTick == TickOf(Accepting(Engine), SwingTicks, MaxSwingTrades)

NextCycles ==
    \/ StartStrategy
    \/ SwingControlLoop
    \/ SwingTick
    \/ StopEngine

SpecCycles == Init /\ [][NextCycles]_vars

-----------------------------------------------------------------------------
(* The settings form filled in with any counts *)

CountInputs == -1 .. MaxCount

UpdateCounts ==
    \E m, g, l \in CountInputs :
        update_settings([BaseSettings EXCEPT !.max_ladder_stocks = m,
                                             !.top_n_gainers = g,
                                             !.top_n_losers = l])

NextSettings == UpdateCounts

SpecSettings == Init /\ [][NextSettings]_vars

-----------------------------------------------------------------------------
(* The ledger driven through its own interface, as verify_app.py drives it *)

\* update_order_status calls: the fills of the documented example, and a
\* rejection, which carries no fill.
StatusUpdates == {<<"EXECUTED", 100, 10>>, <<"EXECUTED", 106, 5>>,
                  <<"REJECTED", 0, 0>>}

\* Orders created: both sides of one symbol and one side of the other.
LedgerOrders == {<<"A", "BUY">>, <<"A", "SELL">>, <<"B", "BUY">>}

\* The clock does not go back; between two calls it may stand still.
LCreateOrder ==
    \E o \in LedgerOrders, dt \in ClockSteps :
        /\ IndexSize(Ledger) < MaxOrders
        /\ now + dt <= MaxClock
        /\ now' = now + dt
        /\ SetLedger(create_order(Ledger, o[1], o[2], 10, now + dt))
        /\ UNCHANGED engineVars

LUpdateOrderStatus ==
    \E order_id \in DOMAIN orders, u \in StatusUpdates :
        /\ SetLedger(update_order_status(Ledger, order_id, u[1], u[2], u[3], ""))
        /\ UNCHANGED <<now, engineVars>>

LReplaceOrderId ==
    \E temp_id \in DOMAIN orders :
        /\ temp_id.kind = "TEMP"
        /\ SetLedger(replace_order_id(Ledger, temp_id, BrokerOrderId(temp_id.n)))
        /\ UNCHANGED <<now, engineVars>>

InitLedger == Init

NextLedger ==
    \/ LCreateOrder
    \/ LUpdateOrderStatus
    \/ LReplaceOrderId

SpecLedger == InitLedger /\ [][NextLedger]_vars

-----------------------------------------------------------------------------
(* Claims about the order ledger *)

\* The order records the ledger holds for a symbol and side with status
\* EXECUTED.
ExecutedRecords(L, symbol, transaction_type) ==
    {o \in {L.orders[oid] : oid \in DOMAIN L.orders} :
        /\ o.symbol = symbol
        /\ o.transaction_type = transaction_type
        /\ o.status = "EXECUTED"}

RECURSIVE SetValue(_)
SetValue(S) ==
    IF S = {} THEN 0
    ELSE LET o == CHOOSE x \in S : TRUE
         IN  o.executed_price * o.executed_quantity + SetValue(S \ {o})

RECURSIVE SetQuantity(_)
SetQuantity(S) ==
    IF S = {} THEN 0
    ELSE LET o == CHOOSE x \in S : TRUE
         IN  o.executed_quantity + SetQuantity(S \ {o})

\* C9: averageEntryPrice(symbol, side) is the sum of filledPrice x filledQty
\* over the sum of filledQty, taken over exactly the executed orders of that
\* symbol and side, and 0 when there is none; nothing else contributes.
C9_AverageOverExecutedOrders ==
    \A symbol \in Symbols, tt \in Sides :
        LET S == ExecutedRecords(Ledger, symbol, tt)
        IN  calculate_average_entry(Ledger, symbol, tt) =
                IF S = {} \/ SetQuantity(S) = 0 THEN FracZero
                ELSE Frac(SetValue(S), SetQuantity(S))

\* C10: a second update_order_status with the same status and fill leaves the
\* ledger as the first left it, and with it the total filled quantity and the
\* average entry price of the order's symbol and side.
C10_UpdateStatusIdempotent ==
    \A order_id \in DOMAIN orders, u \in StatusUpdates :
        LET once == update_order_status(Ledger, order_id, u[1], u[2], u[3], "")
            twice == update_order_status(once, order_id, u[1], u[2], u[3], "")
            o == orders[order_id]
        IN  /\ twice = once
            /\ get_total_quantity(twice, o.symbol, o.transaction_type) =
                   get_total_quantity(once, o.symbol, o.transaction_type)
            /\ calculate_average_entry(twice, o.symbol, o.transaction_type) =
                   calculate_average_entry(once, o.symbol, o.transaction_type)
            \* the state itself is "once" when the order already carries u
            /\ (<<o.status, o.executed_price, o.executed_quantity>> = u
                    /\ o.error_message = ""
                => once = Ledger)

\* C10 witness: an order has been given a fill, and its symbol and side count it.
C10_Witness ==
    \E order_id \in DOMAIN orders :
        /\ orders[order_id].status = "EXECUTED"
        /\ orders[order_id].executed_quantity = 5
        /\ get_total_quantity(Ledger, orders[order_id].symbol,
                              orders[order_id].transaction_type) >= 5

-----------------------------------------------------------------------------
(* Claims about the position state machine *)

\* C1: in every state the engine's operations reach, every tracked position
\* has a mode other than NONE exactly when its quantity is positive.
C1_ModeIffQuantity ==
    \A s \in DOMAIN active_stocks :
        (active_stocks[s].mode # "NONE") <=> (active_stocks[s].quantity > 0)

\* C1 witness: one position is open, and another was opened and closed.
C1_Witness ==
    \E s, t \in DOMAIN active_stocks :
        /\ active_stocks[s].mode # "NONE"
        /\ active_stocks[s].quantity > 0
        /\ active_stocks[t].mode = "NONE"
        /\ active_stocks[t].quantity = 0
        /\ active_stocks[t].entry_price > 0

\* C2: a position that stays in the same long leg never has its stop_loss
\* lowered by a step, and one that stays in the same short leg never has it
\* raised.
C2_TrailingStopMonotonic ==
    [][\A s \in DOMAIN active_stocks :
          s \in DOMAIN active_stocks' =>
              /\ (active_stocks[s].mode = "LONG" /\ active_stocks'[s].mode = "LONG"
                    => active_stocks'[s].stop_loss >= active_stocks[s].stop_loss)
              /\ (active_stocks[s].mode = "SHORT" /\ active_stocks'[s].mode = "SHORT"
                    => active_stocks'[s].stop_loss <= active_stocks[s].stop_loss)]_vars

\* C2 witness: a long position whose stop has been trailed above the initial
\* stop of its entry.
C2_Witness ==
    \E s \in DOMAIN active_stocks :
        /\ active_stocks[s].mode = "LONG"
        /\ active_stocks[s].stop_loss >
               Level(active_stocks[s].entry_price, -1, mult.init_sl_mult)

\* cycles_per_stock of the settings in verify_cycles_and_filters.py.
CyclesPerStock == 3

OrdersOf(index, s) == IF s \in DOMAIN index THEN Len(index[s]) ELSE 0

\* C3: with cycles_per_stock = N, each of the first N-1 stop-outs of a symbol
\* flips it to the opposite side, and the N-th closes it for good: the
\* position is flat and the closing order is the only order of that step.
C3_FlipBudget ==
    [][\A s \in Symbols :
          stopouts'[s] = stopouts[s] + 1 =>
              IF stopouts'[s] < CyclesPerStock
              THEN active_stocks'[s].mode =
                       (IF active_stocks[s].mode = "LONG" THEN "SHORT" ELSE "LONG")
              ELSE /\ active_stocks'[s].mode = "NONE"
                   /\ OrdersOf(stock_orders', s) = OrdersOf(stock_orders, s) + 1]_vars

\* The symbols a ladder was started for in this session: a start leaves the
\* status IDLE behind, and nothing returns to it.
SessionStarted(stocks) == {s \in DOMAIN stocks : stocks[s].status # "IDLE"}

\* C4: while the settings stay as they are, the symbols started in the
\* session never number more than max_ladder_stocks, and once they number
\* max_ladder_stocks no step starts a symbol that is not among them.
C4_SessionSymbolCap ==
    [][(/\ settings' = settings
        /\ Cardinality(SessionStarted(active_stocks)) <= settings.max_ladder_stocks)
       => /\ Cardinality(SessionStarted(active_stocks')) <= settings.max_ladder_stocks
          /\ (Cardinality(SessionStarted(active_stocks)) >= settings.max_ladder_stocks
                => SessionStarted(active_stocks') \subseteq SessionStarted(active_stocks))]_vars

\* C4 witness: the session holds max_ladder_stocks symbols, every position is
\* closed again, and an idle symbol passes the filters of the selection pass.
C4_Witness ==
    /\ running
    /\ Cardinality(SessionStarted(active_stocks)) = settings.max_ladder_stocks
    /\ started_symbols = SessionStarted(active_stocks)
    /\ \A s \in DOMAIN active_stocks : active_stocks[s].quantity = 0
    /\ \E t \in DOMAIN active_stocks :
           /\ active_stocks[t].status = "IDLE"
           /\ active_stocks[t].ltp > 0
           /\ active_stocks[t].turnover >= settings.min_turnover_crores * 10000000
           /\ active_stocks[t].change_pct.num > 0

\* Idle symbols that pass the filters of the selection pass as gainers
\* (sign 1) or as losers (sign -1).
EligibleIdle(E, sign) ==
    {s \in DOMAIN E.active_stocks :
        /\ E.active_stocks[s].status = "IDLE"
        /\ E.active_stocks[s].ltp > 0
        /\ E.active_stocks[s].turnover >= E.settings.min_turnover_crores * 10000000
        /\ sign * E.active_stocks[s].change_pct.num > 0}

\* The states two selection passes in a row can leave, nothing in between.
TwoPasses(E) == UNION {select_top_movers(e) : e \in select_top_movers(E)}

\* The symbols idle in E that hold a position of the mode in e.
Activated(E, e, mode) ==
    {s \in DOMAIN E.active_stocks :
        /\ E.active_stocks[s].status = "IDLE"
        /\ e.active_stocks[s].mode = mode}

\* C5 as stated: consecutive selection passes over a session that has started
\* nothing activate exactly min(top_n_gainers, eligible gainers) symbols long
\* and exactly min(top_n_losers, eligible losers) symbols short.
C5_ExactlyMinActivated ==
    SessionStarted(active_stocks) = {} =>
        \A e \in TwoPasses(Engine) :
            /\ Cardinality(Activated(Engine, e, "LONG")) =
                   Min(settings.top_n_gainers, Cardinality(EligibleIdle(Engine, 1)))
            /\ Cardinality(Activated(Engine, e, "SHORT")) =
                   Min(settings.top_n_losers, Cardinality(EligibleIdle(Engine, -1)))

\* C5 amended: consecutive selection passes activate at most
\* min(top_n_gainers, eligible gainers) symbols long, open longs counting
\* against top_n_gainers, and exactly that many when the session has started
\* nothing before and the broker refuses no entry order; likewise for losers.
C5_NoOverActivation ==
    /\ \A e \in TwoPasses(Engine) :
           /\ Cardinality(Activated(Engine, e, "LONG")) <=
                  Min(Max(0, settings.top_n_gainers - ActiveCount(Engine, "LONG")),
                      Cardinality(EligibleIdle(Engine, 1)))
           /\ Cardinality(Activated(Engine, e, "SHORT")) <=
                  Min(Max(0, settings.top_n_losers - ActiveCount(Engine, "SHORT")),
                      Cardinality(EligibleIdle(Engine, -1)))
    /\ SessionStarted(active_stocks) = {} =>
           \A e \in TwoPasses(Accepting(Engine)) :
               /\ Cardinality(Activated(Engine, e, "LONG")) =
                      Min(settings.top_n_gainers, Cardinality(EligibleIdle(Engine, 1)))
               /\ Cardinality(Activated(Engine, e, "SHORT")) =
                      Min(settings.top_n_losers, Cardinality(EligibleIdle(Engine, -1)))

\* C5 witness: a pass has taken one gainer long, and a second eligible gainer
\* is left idle although the session cap has room for it.
C5_Witness ==
    /\ running
    /\ settings.top_n_gainers = 1
    /\ Cardinality(started_symbols) < settings.max_ladder_stocks
    /\ EligibleIdle(Engine, 1) # {}
    /\ \E s \in DOMAIN active_stocks :
           /\ active_stocks[s].mode = "LONG"
           /\ active_stocks[s].quantity > 0
           /\ active_stocks[s].ladder_level = 1
           /\ stopouts[s] = 0

\* The opening gap of each symbol in per cent of its reference close, and
\* the band of the settings in verify_cycles_and_filters.py.
OpenGapPct == [s \in Symbols |-> IF s = "A" THEN 5 ELSE 2]
MaxOpenGapPctLong == 3
MinOpenGapPctShort == 0 - 3

\* C6: no step takes an idle symbol long whose opening gap is above
\* max_open_gap_pct_long, or short whose opening gap is below
\* min_open_gap_pct_short.
C6_OpenGapFilter ==
    [][\A s \in DOMAIN active_stocks :
          (/\ s \in DOMAIN active_stocks'
           /\ active_stocks[s].status = "IDLE"
           /\ active_stocks'[s].status # "IDLE")
          => /\ (active_stocks'[s].mode = "LONG"
                    => OpenGapPct[s] <= MaxOpenGapPctLong)
             /\ (active_stocks'[s].mode = "SHORT"
                    => OpenGapPct[s] >= MinOpenGapPctShort)]_vars

\* C7: no position is left open with a P&L below minus the per-stock loss
\* cap: the tick that takes the P&L there closes the position.
C7_PerStockLossCap ==
    \A s \in DOMAIN active_stocks :
        active_stocks[s].quantity > 0 =>
            active_stocks[s].pnl.num >=
                (0 - settings.loss_limit_per_stock) * active_stocks[s].pnl.den

\* C8: after every update the stored counts are in range and sum to at most
\* max_ladder_stocks; gainers that fit are kept as given, losers are cut
\* first and only as far as the sum requires; (5, 3, 4) leaves 2 losers; no
\* other setting is touched.
C8_SettingsNormalized ==
    LET m == settings_input.max_ladder_stocks
        g == settings_input.top_n_gainers
        l == settings_input.top_n_losers
    IN  /\ settings.max_ladder_stocks >= 1
        /\ settings.top_n_gainers >= 0
        /\ settings.top_n_losers >= 0
        /\ settings.top_n_gainers + settings.top_n_losers <= settings.max_ladder_stocks
        /\ settings.max_ladder_stocks = Max(1, m)
        /\ (0 <= g /\ g <= Max(1, m) => settings.top_n_gainers = g)
        /\ settings.top_n_losers <= Max(0, l)
        /\ (settings.top_n_losers < Max(0, l)
              => settings.top_n_gainers + settings.top_n_losers
                     = settings.max_ladder_stocks)
        /\ (settings.top_n_gainers # Max(0, g) => settings.top_n_losers = 0)
        /\ (<<m, g, l>> = <<5, 3, 4>> => settings.top_n_losers = 2)
        /\ settings = [settings_input EXCEPT
                          !.max_ladder_stocks = settings.max_ladder_stocks,
                          !.top_n_gainers = settings.top_n_gainers,
                          !.top_n_losers = settings.top_n_losers]

\* C8 witness: the update (5, 3, 4) has been stored with 2 losers.
C8_Witness ==
    /\ settings_input.max_ladder_stocks = 5
    /\ settings_input.top_n_gainers = 3
    /\ settings_input.top_n_losers = 4
    /\ settings.top_n_gainers = 3
    /\ settings.top_n_losers = 2

-----------------------------------------------------------------------------
(* The selection filters: one mover thinly traded, unpriced or closed, and  *)
(* a smaller mover that passes the filters.                                 *)

\* Ticks of the feed: A up 20 per cent with a volume that passes the
\* turnover filter and with one that does not, A at price 0 without volume
\* (the turnover of the tick before stays), B up 10 per cent.
FilterTicks ==
    {[symbol |-> "A", ltp |-> 120, volume |-> 1000000],
     [symbol |-> "A", ltp |-> 120, volume |-> 10000],
     [symbol |-> "A", ltp |-> 0, volume |-> 0],
     [symbol |-> "B", ltp |-> 110, volume |-> 1000000]}

FilterControlLoop == ControlLoopOf(Engine, MaxFilterTrades)

FilterTick == TickOf(Engine, FilterTicks, MaxFilterTrades)

FilterManualClose ==
    \E s \in Symbols :
        /\ s \in DOMAIN active_stocks
        /\ active_stocks[s].mode # "NONE"
        /\ \E e \in WithStatus(close_position(Engine, s), s, "CLOSED_MANUAL") :
               /\ IndexSize(LedgerOf(e)) <= MaxFilterTrades
               /\ SetEngine(e)

NextFilter ==
    \/ StartStrategy
    \/ FilterControlLoop
    \/ FilterTick
    \/ FilterManualClose

SpecFilter == Init /\ [][NextFilter]_vars

\* A symbol the pass from E to e has touched: its position record differs or
\* its index of orders has grown.
Touched(E, e, s) ==
    \/ e.active_stocks[s] # E.active_stocks[s]
    \/ OrdersOf(e.stock_orders, s) # OrdersOf(E.stock_orders, s)

\* The eligible gainers no eligible gainer has a larger percent change than.
TopEligibleGainers(E) ==
    {s \in EligibleIdle(E, 1) :
        \A t \in EligibleIdle(E, 1) :
            ~FracGt(E.active_stocks[t].change_pct, E.active_stocks[s].change_pct)}

\* The pass gets as far as picking gainers: neither cap is reached and a
\* long is needed.
PassPicksGainers(E) ==
    /\ Cardinality(E.started_symbols) < E.settings.max_ladder_stocks
    /\ ActiveCount(E, "LONG") + ActiveCount(E, "SHORT") < E.settings.max_ladder_stocks
    /\ E.settings.top_n_gainers > ActiveCount(E, "LONG")

\* C11: a selection pass touches no symbol whose status is not idle, whose
\* last price is <= 0 or whose turnover is below the minimum, whatever its
\* percent change; when the pass picks gainers and an eligible gainer exists,
\* the entry order goes to an eligible gainer with the largest change among
\* the eligible ones, which is long afterwards once the broker accepts.
C11_OnlyEligibleActivated ==
    /\ \A e \in select_top_movers(Engine) :
           \A s \in DOMAIN active_stocks :
               Touched(Engine, e, s) =>
                   /\ active_stocks[s].status = "IDLE"
                   /\ active_stocks[s].ltp > 0
                   /\ active_stocks[s].turnover >=
                          settings.min_turnover_crores * 10000000
    /\ (PassPicksGainers(Engine) /\ EligibleIdle(Engine, 1) # {}) =>
           /\ \A e \in select_top_movers(Engine) :
                  \E s \in TopEligibleGainers(Engine) :
                      OrdersOf(e.stock_orders, s) = OrdersOf(stock_orders, s) + 1
           /\ \A e \in select_top_movers(Accepting(Engine)) :
                  \E s \in TopEligibleGainers(Engine) :
                      /\ e.active_stocks[s].mode = "LONG"
                      /\ e.active_stocks[s].quantity > 0

\* C11 witness: B, up 10 per cent, has been taken long in a pass while A, up
\* 20 per cent, stays idle for its thin turnover.
C11_Witness ==
    /\ running
    /\ "A" \in DOMAIN active_stocks
    /\ active_stocks["A"].status = "IDLE"
    /\ active_stocks["A"].turnover < settings.min_turnover_crores * 10000000
    /\ active_stocks["A"].turnover > 0
    /\ FracGt(active_stocks["A"].change_pct, active_stocks["B"].change_pct)
    /\ active_stocks["B"].mode = "LONG"
    /\ active_stocks["B"].ladder_level = 1
    /\ active_stocks["B"].change_pct.num > 0

\* global_profit_exit and global_loss_exit of the settings in
\* verify_cycles_and_filters.py, in the units of the model's trade capital.
GlobalProfitExit == 20
GlobalLossExit == 20

\* C12: once the aggregate P&L the control loop has computed is at
\* global_profit_exit or above, or at minus global_loss_exit or below, every
\* position is squared off and none is open afterwards.
C12_GlobalKillSwitch ==
    (\/ pnl_global.num >= GlobalProfitExit * pnl_global.den
     \/ pnl_global.num <= (0 - GlobalLossExit) * pnl_global.den)
    => \A s \in DOMAIN active_stocks : active_stocks[s].quantity = 0

-----------------------------------------------------------------------------
(* The tick thread and the main thread.  process_tick runs on the thread of *)
(* the feed (dhan_client.subscribe, ws_thread); the selection pass and      *)
(* square_off_all run on the event loop of the main thread, and the engine  *)
(* takes no lock.  A tick is taken whole here; the main thread is taken     *)
(* apart where the tick thread can come in between: at each assignment of   *)
(* a ladder start to the position, and at the broker call of a close.       *)

RaceTicks == {[symbol |-> "A", ltp |-> p, volume |-> 1000000] : p \in {90, 110}}

\* The symbols the selection pass from E to e has started a ladder for.
StartedIn(E, e) ==
    {s \in DOMAIN E.active_stocks :
        /\ E.active_stocks[s].status = "IDLE"
        /\ e.active_stocks[s].status # "IDLE"}

\* start_long_ladder / start_short_ladder before its assignments to the
\* position: the order is placed and filed and the symbol is recorded as
\* started, as in e; the position is as the pass found it in E.
BeforeAssignments(E, e, s) ==
    [e EXCEPT
        !.active_stocks[s] =
            [E.active_stocks[s] EXCEPT !.order_ids = e.active_stocks[s].order_ids],
        !.inflight = [NoOperation EXCEPT !.op = "start", !.symbol = s,
                                         !.mode = e.active_stocks[s].mode,
                                         !.qty = e.active_stocks[s].quantity,
                                         !.pc = 1]]

\* The assignments of a ladder start to the position, in their order.
LastAssignment == 10

Assignment(E, s, mode, qty, pc) ==
    LET stock == E.active_stocks[s]
    IN  CASE pc = 1 -> [E EXCEPT !.active_stocks[s].mode = mode]
          [] pc = 2 -> [E EXCEPT !.active_stocks[s].status = "ACTIVE"]
          [] pc = 3 -> [E EXCEPT !.active_stocks[s].ladder_level = 1]
          [] pc = 4 -> [E EXCEPT !.active_stocks[s].entry_price = stock.ltp]
          [] pc = 5 -> [E EXCEPT !.active_stocks[s].avg_entry_price =
                                     Frac(stock.ltp, 1)]
          [] pc = 6 -> [E EXCEPT !.active_stocks[s].quantity = qty]
          [] pc = 7 -> [E EXCEPT !.active_stocks[s].high_watermark = stock.ltp]
          [] pc = 8 -> [E EXCEPT !.active_stocks[s].stop_loss =
                                     Level(stock.ltp, -Sign(mode), E.mult.init_sl_mult)]
          [] pc = 9 -> [E EXCEPT !.active_stocks[s].target =
                                     Level(stock.ltp, Sign(mode), E.mult.target_mult)]
          [] OTHER -> [E EXCEPT !.active_stocks[s].next_add_on =
                                     Level(stock.ltp, Sign(mode), E.mult.add_on_mult)]

\* One turn of the main loop during market hours; a ladder it starts is left
\* before its assignments.
RaceControlLoop ==
    /\ running
    /\ market_open
    /\ inflight.op = "none"
    /\ \E e \in calculate_pnl(Accepting(Engine)) :
           /\ IndexSize(LedgerOf(e)) <= MaxRaceTrades
           /\ Cardinality(StartedIn(Engine, e)) <= 1
           /\ IF StartedIn(Engine, e) = {}
              THEN SetEngine(e)
              ELSE \E s \in StartedIn(Engine, e) :
                       SetEngine(BeforeAssignments(Engine, e, s))

\* The main thread makes the next assignment of the ladder start.
RaceAssign ==
    /\ inflight.op = "start"
    /\ SetEngine([Assignment(Engine, inflight.symbol, inflight.mode,
                             inflight.qty, inflight.pc)
                     EXCEPT !.inflight = IF inflight.pc = LastAssignment
                                         THEN NoOperation
                                         ELSE [inflight EXCEPT !.pc = @ + 1]])

\* The tick thread handles a tick, wherever the main thread is.
RaceTick == TickOf(Accepting(Engine), RaceTicks, MaxRaceTrades)

\* The open positions in the order square_off_all visits them.
OpenPositions(E) ==
    SelectSeq(StockList(E),
              LAMBDA s : /\ E.active_stocks[s].mode # "NONE"
                         /\ E.active_stocks[s].quantity > 0)

\* POST /api/square-off-all up to the broker call of the first close:
\* close_position has created the order and waits in place_order.
RaceSquareOffCall ==
    /\ inflight.op = "none"
    /\ OpenPositions(Engine) # <<>>
    /\ LET s == Head(OpenPositions(Engine))
           stock == active_stocks[s]
           transaction_type == IF stock.mode = "LONG" THEN "SELL" ELSE "BUY"
       IN  \E dt \in EngineClockSteps :
               LET e == Created(Engine, s, transaction_type, stock.quantity, dt)
               IN  /\ IndexSize(LedgerOf(e)) <= MaxRaceTrades
                   /\ SetEngine([e EXCEPT !.inflight =
                          [NoOperation EXCEPT !.op = "close", !.symbol = s,
                                              !.mode = stock.mode,
                                              !.qty = stock.quantity,
                                              !.order_id = TempOrderId(s, e.now)]])

\* The broker call returns: the rest of close_position, the status, and the
\* rest of the loop of square_off_all.
RaceSquareOffReturn ==
    /\ inflight.op = "close"
    /\ LET s == inflight.symbol
           stock == active_stocks[s]
           e1 == RecordExecuted(Engine, inflight.order_id, "ok",
                                stock.ltp, stock.quantity)
           e2 == [e1 EXCEPT !.active_stocks[s].quantity = 0,
                            !.active_stocks[s].mode = "NONE",
                            !.active_stocks[s].status = "CLOSED_EMERGENCY",
                            !.inflight = NoOperation]
           rest == SelectSeq(StockList(Engine),
                             LAMBDA x : IndexOf(SymbolOrder, x) >
                                            IndexOf(SymbolOrder, s))
       IN  \E e \in SquareOff({Accepting(e2)}, rest) :
               /\ IndexSize(LedgerOf(e)) <= MaxRaceTrades
               /\ SetEngine(e)

NextRace ==
    \/ StartStrategy
    \/ RaceControlLoop
    \/ RaceAssign
    \/ RaceTick
    \/ RaceSquareOffCall
    \/ RaceSquareOffReturn

SpecRace == Init /\ [][NextRace]_vars

\* A position of the mode that has no stop or no target yet.
HalfInitialised(stock) ==
    /\ stock.mode # "NONE"
    /\ (stock.target = 0 \/ stock.stop_loss = 0)

\* C13: a tick never works on a position a ladder start is still assigning
\* (mode set, stop or target still 0), and whenever the main thread is between
\* two operations no position has a quantity with mode NONE.
C13_TickEntryExclusion ==
    [][/\ (/\ inflight.op = "start"
           /\ inflight' = inflight
           /\ active_stocks' # active_stocks)
          => ~HalfInitialised(active_stocks[inflight.symbol])
       /\ inflight'.op = "none"
          => \A s \in DOMAIN active_stocks' :
                 active_stocks'[s].quantity > 0 => active_stocks'[s].mode # "NONE"]_vars

\* C14: while square_off_all is closing a position no tick flips it to the
\* other side; when square_off_all is done the position has mode NONE,
\* quantity 0 and status CLOSED_EMERGENCY, and no later step opens it again.
C14_SquareOffExclusion ==
    [][/\ (inflight.op = "close" /\ inflight' = inflight)
          => active_stocks'[inflight.symbol].mode \in
                 {active_stocks[inflight.symbol].mode, "NONE"}
       /\ (inflight.op = "close" /\ inflight'.op = "none")
          => /\ active_stocks'[inflight.symbol].mode = "NONE"
             /\ active_stocks'[inflight.symbol].quantity = 0
             /\ active_stocks'[inflight.symbol].status = "CLOSED_EMERGENCY"
       /\ \A s \in DOMAIN active_stocks :
              (s \in DOMAIN active_stocks'
                  /\ active_stocks[s].status = "CLOSED_EMERGENCY")
              => active_stocks'[s].mode = "NONE"]_vars

-----------------------------------------------------------------------------
(* Claims about the broker's answers *)

\* The answers of place_order that do not accept the order.
Refusals == {"none", "failure"}

\* C15: when the broker does not accept the entry order of start_long_ladder
\* or start_short_ladder for an idle symbol (a failure result, or no result),
\* the position keeps mode NONE, quantity 0 and status IDLE, and the symbol
\* is not added to started_symbols.
C15_FailedEntryChangesNothing ==
    \A s \in DOMAIN active_stocks :
        (active_stocks[s].status = "IDLE" /\ ~SessionCapReached(Engine, s)) =>
            \A mode \in {"LONG", "SHORT"}, dt \in EngineClockSteps, resp \in Refusals :
                LET e == StartedWith(Engine, s, mode, dt, resp)
                IN  /\ e.active_stocks[s].mode = "NONE"
                    /\ e.active_stocks[s].quantity = 0
                    /\ e.active_stocks[s].status = "IDLE"
                    /\ e.started_symbols = started_symbols


\* The orders whose placement the broker did not accept: an accepted order
\* is filed under the broker's id, so these are the ones left under the
\* temporary id.
FailedOrders == {oid \in DOMAIN orders : oid.kind = "TEMP"}

\* C16: once the handler that placed it has returned, an order whose
\* placement failed (entry, add-on or close) has status REJECTED: it is
\* neither left PENDING nor recorded as EXECUTED.
C16_FailuresRejected ==
    \A oid \in FailedOrders : orders[oid].status = "REJECTED"


-----------------------------------------------------------------------------
(* Claims about capacity and the frame of the handlers *)

\* The positions that hold a quantity.
OpenCount(stocks) ==
    Cardinality({s \in DOMAIN stocks : stocks[s].quantity > 0})

\* C17: while the settings stay as they are, no step (selection pass, tick,
\* stop-out flip, manual close, square-off) takes the number of positions with
\* quantity > 0 above max_ladder_stocks, and a selection pass that finds that
\* many open starts nothing.
C17_CapacityCeiling ==
    /\ [](OpenCount(active_stocks) >= settings.max_ladder_stocks
            => select_top_movers(Engine) = {Engine})
    /\ [][(/\ settings' = settings
           /\ OpenCount(active_stocks) <= settings.max_ladder_stocks)
          => OpenCount(active_stocks') <= settings.max_ladder_stocks]_vars

\* C17 witness: as many positions are open as max_ladder_stocks allows, and
\* an idle symbol passes the filters of the selection pass.
C17_Witness ==
    /\ running
    /\ OpenCount(active_stocks) = settings.max_ladder_stocks
    /\ EligibleIdle(Engine, 1) \cup EligibleIdle(Engine, -1) # {}


\* Ticks the feed can deliver in any state: those of the model, and one for
\* a symbol the engine does not track.
AnyTicks == Ticks \cup {[symbol |-> "C", ltp |-> 110, volume |-> 1000000]}

\* C18: process_tick changes nothing (no position field, no ledger entry, no
\* started symbol, no order at the broker) when the engine is not running,
\* when it does not track the symbol, or when the symbol's status is STOPPED
\* or one of the closed statuses, that is, neither IDLE nor ACTIVE.
C18_TickNoOp ==
    \A t \in AnyTicks :
        (\/ ~running
         \/ t.symbol \notin DOMAIN active_stocks
         \/ active_stocks[t.symbol].status \notin {"IDLE", "ACTIVE"})
        => process_tick(Engine, t.symbol, t.ltp, t.volume) = {Engine}

\* C18 witness: the engine was stopped with a position open, and another
\* symbol of the session is closed.
C18_Witness ==
    /\ ~running
    /\ \E s, t \in DOMAIN active_stocks :
           /\ active_stocks[s].quantity > 0
           /\ active_stocks[s].status = "ACTIVE"
           /\ active_stocks[t].status \notin {"IDLE", "ACTIVE"}


\* C19: a turn of the control loop places no order and makes no other
\* request at the broker: the ledger holds the orders it held and the broker
\* has handed out no order id.
C19_ControlLoopNoBrokerCall ==
    running =>
        \A e \in calculate_pnl(Engine) :
            /\ IndexSize(LedgerOf(e)) = IndexSize(Ledger)
            /\ e.broker_seq = broker_seq


-----------------------------------------------------------------------------
(* The feed's reconnection: dhan_client.py.  The feed closes and connects;  *)
(* a reconnect sleeps, and the sleep is the clock moving on.                *)

max_reconnect_attempts == 10
reconnect_delay == 5
reconnect_delay_cap == 60

RECURSIVE Pow2(_)
Pow2(n) == IF n = 0 THEN 1 ELSE 2 * Pow2(n - 1)

\* _handle_reconnect with the delay doubled without a cap.
_handle_reconnect_uncapped(D) ==
    IF D.reconnect_attempts >= max_reconnect_attempts THEN D
    ELSE LET attempts == D.reconnect_attempts + 1
             delay == reconnect_delay * Pow2(attempts - 1)
             slept == [D EXCEPT !.reconnect_attempts = attempts,
                                !.now = D.now + delay * 1000]
         IN  IF {"_callback", "_instruments"} \subseteq slept.feed.attrs
             THEN [slept EXCEPT !.feed = subscribe(@)]
             ELSE slept

\* _handle_reconnect on the client's counter, its feed and the clock in
\* milliseconds: the sleep, then the subscribe of line 333 if both _callback
\* and _instruments are attributes of the client.
_handle_reconnect(D) ==
    IF D.reconnect_attempts >= max_reconnect_attempts THEN D
    ELSE LET attempts == D.reconnect_attempts + 1
             delay == Min(reconnect_delay * Pow2(attempts - 1), reconnect_delay_cap)
             slept == [D EXCEPT !.reconnect_attempts = attempts,
                                !.now = D.now + delay * 1000]
         IN  IF {"_callback", "_instruments"} \subseteq slept.feed.attrs
             THEN [slept EXCEPT !.feed = subscribe(@)]
             ELSE slept

Client == [reconnect_attempts |-> reconnect_attempts, now |-> now, feed |-> feed]

\* _on_ws_close: the stream, if there was one, has closed.
OnWsClose ==
    LET closed == [Client EXCEPT !.feed.state = IF @ = "open" THEN "closed" ELSE @]
        D == _handle_reconnect(closed)
    IN  /\ D.now <= MaxReconnectClock
        /\ reconnect_attempts' = D.reconnect_attempts
        /\ now' = D.now
        /\ feed' = D.feed
        /\ UNCHANGED <<orders, stock_orders, settings, mult, active_stocks,
                       started_symbols, running, pnl_global, broker_seq,
                       market_open, settings_input, stopouts, inflight,
                       loop_fault, limiterVars, resolverVars>>

\* _on_ws_connect: the stream is connected.
OnWsConnect ==
    /\ reconnect_attempts' = 0
    /\ UNCHANGED <<ledgerVars, settings, mult, active_stocks, started_symbols,
                   running, pnl_global, broker_seq, market_open, settings_input,
                   stopouts, inflight, feed, loop_fault, limiterVars, resolverVars>>

NextReconnect ==
    \/ OnWsClose
    \/ OnWsConnect

SpecReconnect == Init /\ [][NextReconnect]_vars

\* The seconds the k-th consecutive attempt waits, for base 5.
ExpectedBackoff == <<5, 10, 20, 40, 60, 60, 60, 60, 60, 60>>

\* C20: the k-th consecutive reconnect attempt after a close waits
\* min(60, base * 2^(k-1)) seconds, that is 5, 10, 20, 40, 60, 60, ...; the
\* attempt counter never exceeds the maximum of 10; and at the maximum a
\* further close brings no wait and no attempt.
C20_ReconnectBackoff ==
    /\ [](/\ reconnect_attempts <= 10
          /\ (reconnect_attempts = 10 => _handle_reconnect(Client) = Client))
    /\ [][reconnect_attempts' = reconnect_attempts + 1 =>
              LET k == reconnect_attempts'
                  waited == now' - now
              IN  /\ waited = 1000 * ExpectedBackoff[k]
                  /\ waited = 1000 * (IF 5 * Pow2(k - 1) < 60
                                      THEN 5 * Pow2(k - 1) ELSE 60)]_vars

\* C20 witness: ten attempts in a row have been made, the last six of them
\* after the capped wait of 60 seconds.
C20_Witness ==
    /\ reconnect_attempts = 10
    /\ now = 435000


-----------------------------------------------------------------------------
(* Claims about the identifiers of the ledger *)

\* No identifier occurs twice in the list.
NoRepeat(seq) == \A i, j \in 1..Len(seq) : seq[i] = seq[j] => i = j

\* C29: every create_order files its order under an identifier no order of
\* the ledger has: the call adds one record and overwrites none, and no
\* symbol's index ever lists an identifier twice, also when two orders of
\* one symbol are created back to back.
C29_CreateOrderUniqueId ==
    /\ [](\A s \in Symbols : NoRepeat(stock_orders[s]))
    /\ [][IndexSize([orders |-> orders', stock_orders |-> stock_orders'])
              > IndexSize(Ledger) =>
          /\ Cardinality(DOMAIN orders') = Cardinality(DOMAIN orders) + 1
          /\ \A oid \in DOMAIN orders :
                 oid \in DOMAIN orders' /\ orders'[oid] = orders[oid]]_vars

\* Identifiers replace_order_id is called with: those of the ledger and one
\* the ledger does not know.
CalledTempIds == (DOMAIN orders) \cup {TempOrderId("A", MaxClock + 1)}

\* Identifiers the broker has not handed out yet.
FreshBrokerIds ==
    {BrokerOrderId(n) : n \in 0..(MaxClock + 1)} \ (DOMAIN orders)

\* The first position of x in the list.
FirstPosition(seq, x) ==
    CHOOSE i \in 1..Len(seq) : seq[i] = x /\ \A j \in 1..Len(seq) : seq[j] = x => i <= j

\* C30: replace_order_id(temp_id, actual_id) re-keys one order and nothing
\* else: the order is found under actual_id and no longer under temp_id, its
\* other fields are as they were, the symbol's index holds actual_id where
\* temp_id first stood, every other order and every other symbol's index
\* is as it was; with a temp_id the ledger does not know nothing changes.
C30_ReplaceRekeysOneOrder ==
    \A temp_id \in CalledTempIds, actual_id \in FreshBrokerIds :
        LET L == Ledger
            R == replace_order_id(L, temp_id, actual_id)
        IN  IF temp_id \notin DOMAIN L.orders THEN R = L
            ELSE LET symbol == L.orders[temp_id].symbol
                     ids == L.stock_orders[symbol]
                 IN  /\ DOMAIN R.orders =
                            ((DOMAIN L.orders) \ {temp_id}) \cup {actual_id}
                     /\ R.orders[actual_id] =
                            [L.orders[temp_id] EXCEPT !.order_id = actual_id]
                     /\ \A oid \in (DOMAIN L.orders) \ {temp_id} :
                            R.orders[oid] = L.orders[oid]
                     /\ \A s \in Symbols \ {symbol} :
                            R.stock_orders[s] = L.stock_orders[s]
                     /\ Len(R.stock_orders[symbol]) = Len(ids)
                     /\ \A i \in 1..Len(ids) :
                            R.stock_orders[symbol][i] =
                                IF ids[i] = temp_id /\ i = FirstPosition(ids, temp_id)
                                THEN actual_id ELSE ids[i]

\* C30 witness: an order has been re-keyed to a broker identifier while
\* another order of its symbol, listed before it, still has its temporary
\* one, and the other symbol has an order too.
C30_Witness ==
    /\ \E s \in Symbols :
           /\ Len(stock_orders[s]) >= 2
           /\ stock_orders[s][1].kind = "TEMP"
           /\ stock_orders[s][2].kind = "ORD"
           /\ stock_orders[s][2] \in DOMAIN orders
           /\ orders[stock_orders[s][2]].order_id = stock_orders[s][2]
    /\ \E s \in Symbols : Len(stock_orders[s]) = 1


-----------------------------------------------------------------------------
(* The engine behind the feed: ticks reach process_tick through _on_tick,   *)
(* the stream may close, and a handler may raise.                           *)

\* DhanClientWrapper.id_map: security id -> symbol.
IdMap == [sid \in {1, 2} |-> IF sid = 1 THEN "A" ELSE "B"]

\* Messages of the stream: the keys of the message and their values.  Two
\* are complete ticks of A; one lacks the price, one the security id, and one
\* carries an id the reverse map does not hold.
RawTicks ==
    {[keys |-> {"LTP", "security_id", "volume"}, security_id |-> 1,
      LTP |-> p, volume |-> 1000000] : p \in {90, 110}}
        \cup {[keys |-> {"security_id", "volume"}, security_id |-> 1,
               LTP |-> 0, volume |-> 1000000],
              [keys |-> {"LTP", "volume"}, security_id |-> 0,
               LTP |-> 110, volume |-> 1000000],
              [keys |-> {"LTP", "security_id"}, security_id |-> 9,
               LTP |-> 110, volume |-> 0]}

\* What the callback raises at the end of its first call and at the end of
\* the call of line 368.
HandlerFaults == {"none", "TypeError", "Exception"} \X {"none", "TypeError", "Exception"}

\* The exceptions `except Exception` of line 370 catches.
CaughtAsException == {"TypeError", "Exception"}

\* _on_tick without the handler of line 370: what the callback raises and
\* line 366 does not catch leaves _on_tick.
_on_tick_unguarded(E, tick_data, faults) ==
    IF ~({"LTP", "security_id"} \subseteq tick_data.keys)
    THEN {[engine |-> E, calls |-> 0, raised |-> "none"]}
    ELSE IF tick_data.security_id \notin DOMAIN IdMap
    THEN {[engine |-> E, calls |-> 0, raised |-> "none"]}
    ELSE LET symbol == IdMap[tick_data.security_id]
             volume == IF "volume" \in tick_data.keys THEN tick_data.volume ELSE 0
             first == process_tick(E, symbol, tick_data.LTP, volume)
         IN  IF faults[1] = "TypeError"
             THEN {[engine |-> e2, calls |-> 2, raised |-> faults[2]] :
                       e2 \in UNION {process_tick(e1, symbol, tick_data.LTP, 0) :
                                         e1 \in first}}
             ELSE {[engine |-> e1, calls |-> 1, raised |-> faults[1]] :
                       e1 \in first}

\* _on_tick: the callback is called for a message that has a price and a
\* security id the reverse map holds; a TypeError of the callback leads to
\* the call of line 368; whatever is raised inside the outer try is caught
\* at line 370.  A result names the engine afterwards, the calls of the
\* callback, and the exception that leaves _on_tick.
_on_tick(E, tick_data, faults) ==
    LET Outer(kind) == IF kind \in CaughtAsException THEN "none" ELSE kind
    IN  IF ~({"LTP", "security_id"} \subseteq tick_data.keys)
        THEN {[engine |-> E, calls |-> 0, raised |-> "none"]}
        ELSE IF tick_data.security_id \notin DOMAIN IdMap
        THEN {[engine |-> E, calls |-> 0, raised |-> "none"]}
        ELSE LET symbol == IdMap[tick_data.security_id]
                 volume == IF "volume" \in tick_data.keys
                           THEN tick_data.volume ELSE 0
                 first == process_tick(E, symbol, tick_data.LTP, volume)
             IN  IF faults[1] = "TypeError"
                 THEN {[engine |-> e2, calls |-> 2, raised |-> Outer(faults[2])] :
                           e2 \in UNION {process_tick(e1, symbol, tick_data.LTP, 0) :
                                             e1 \in first}}
                 ELSE {[engine |-> e1, calls |-> 1, raised |-> Outer(faults[1])] :
                           e1 \in first}

\* The stream delivers a message to _on_tick.
FeedTick ==
    /\ feed.state = "open"
    /\ \E tick_data \in RawTicks, faults \in HandlerFaults :
           \E r \in _on_tick(Engine, tick_data, faults) :
               /\ IndexSize(LedgerOf(r.engine)) <= MaxRaceTrades
               /\ SetEngine(r.engine)

\* The stream closes: _on_ws_close.
FeedCloses ==
    /\ feed.state = "open"
    /\ OnWsClose

\* A turn of the main loop in which nothing raises.
FeedControlLoop ==
    /\ ~loop_fault
    /\ ControlLoopOf(Engine, MaxRaceTrades)

\* The turns of the main loop in which the entry of the one selected symbol
\* raises where it reads the answer of place_order: the order is created,
\* nothing else of the entry is done, and the exception leaves
\* select_top_movers, calculate_pnl and the loop of start_strategy, none of
\* which catches it.
FaultedPasses(E) ==
    {[e EXCEPT !.loop_fault = TRUE] :
         e \in {x \in calculate_pnl([E EXCEPT !.responses = {"failure"}]) :
                    IndexSize(LedgerOf(x)) = IndexSize(LedgerOf(E)) + 1}}

FeedControlLoopFault ==
    /\ running
    /\ ~loop_fault
    /\ \E e \in FaultedPasses(Engine) :
           /\ IndexSize(LedgerOf(e)) <= MaxRaceTrades
           /\ SetEngine(e)

NextFeed ==
    \/ StartStrategy
    \/ FeedTick
    \/ FeedCloses
    \/ FeedControlLoop
    \/ FeedControlLoopFault

SpecFeed == Init /\ [][NextFeed]_vars

\* C21: when the stream closes after a subscribe and attempts are left, the
\* gateway subscribes again after the wait, with the callback and the
\* instruments of before: the feed is never left closed while fewer than
\* max_reconnect_attempts attempts have been used.
C21_FeedReestablished ==
    feed.state = "closed" => reconnect_attempts >= max_reconnect_attempts

\* A message that lacks the price or the security id, or whose id the reverse
\* map does not hold.
Malformed(tick_data) ==
    \/ "LTP" \notin tick_data.keys
    \/ "security_id" \notin tick_data.keys
    \/ tick_data.security_id \notin DOMAIN IdMap

\* C25: for a malformed message _on_tick does not call the engine's handler
\* and changes nothing; and for no message, whatever the handler raises, does
\* an exception leave _on_tick.
C25_MalformedTicksDropped ==
    \A tick_data \in RawTicks, faults \in HandlerFaults :
        \A r \in _on_tick(Engine, tick_data, faults) :
            /\ r.raised = "none"
            /\ Malformed(tick_data) => r.calls = 0 /\ r.engine = Engine

\* C25 witness: the feed is open and A is held long at 110, so that a
\* complete tick of A at 90 makes the handler trade, and a malformed one
\* arrives in the same state.
C25_Witness ==
    /\ feed.state = "open"
    /\ running
    /\ "A" \in DOMAIN active_stocks
    /\ active_stocks["A"].mode = "LONG"
    /\ active_stocks["A"].quantity > 0
    /\ \E tick_data \in RawTicks :
           /\ ~Malformed(tick_data)
           /\ \E r \in _on_tick(Engine, tick_data, <<"Exception", "none">>) :
                  r.calls = 1 /\ r.engine # Engine
    /\ \E tick_data \in RawTicks : Malformed(tick_data)

\* C28: a fault raised while one symbol is processed, in a tick or in an
\* entry of the selection pass, leaves the positions of the other symbols as
\* they are and does not end the control loop: while the engine is running
\* the task of start_strategy has not ended with an exception.
C28_FaultIsolation ==
    /\ [](running => ~loop_fault)
    /\ [](\A tick_data \in RawTicks, faults \in HandlerFaults :
              \A r \in _on_tick(Engine, tick_data, faults) :
                  \A s \in DOMAIN active_stocks :
                      (~Malformed(tick_data) /\ s # IdMap[tick_data.security_id])
                          => r.engine.active_stocks[s] = active_stocks[s])
    /\ [][(loop_fault' /\ ~loop_fault) =>
              \E s \in DOMAIN active_stocks :
                  \A o \in (DOMAIN active_stocks) \ {s} :
                      active_stocks'[o] = active_stocks[o]]_vars


-----------------------------------------------------------------------------
(* The rate limiter under the calls of get_historical_data: dhan_client.py. *)
(* A caller is in one place of the call: about to take a token (acquire),   *)
(* asleep between two turns of acquire (sleeping), about to take a          *)
(* connection slot (acquire_connection), asleep between two turns of that   *)
(* (sleeping_connection), or holding a slot (holding).                      *)

otherVars == <<orders, stock_orders, settings, mult, active_stocks,
               started_symbols, running, pnl_global, broker_seq, market_open,
               settings_input, stopouts, inflight, reconnect_attempts, feed,
               loop_fault>>

\* The threads that fetch bars at the same time.
LimiterCallers == {1, 2}

\* How the part of get_historical_data that holds the slot ends: no security
\* id, an exception of the broker call, a failure answer, a success answer.
FetchOutcomes == {"no_security_id", "exception", "failure", "success"}

\* get_historical_data is called: it returns at once when the client is not
\* connected, and otherwise enters acquire with retries = 0.
FetchCall ==
    \E c \in LimiterCallers, is_connected \in BOOLEAN :
        /\ callers[c].pc = "idle"
        /\ callers' = [callers EXCEPT ![c] =
                           IF is_connected THEN [Idle EXCEPT !.pc = "acquire"]
                           ELSE [Idle EXCEPT !.result = "not_connected"]]
        /\ UNCHANGED <<now, rate_limiter, otherVars, resolverVars>>

\* One turn of the loop of acquire: True is returned with a token taken, or
\* the caller goes to sleep for wait_time.
FetchAcquire ==
    \E c \in LimiterCallers :
        /\ callers[c].pc = "acquire"
        /\ LET a == acquire(rate_limiter, now)
           IN  /\ rate_limiter' = a.limiter
               /\ callers' = [callers EXCEPT ![c] =
                      IF a.acquired THEN [@ EXCEPT !.pc = "acquire_connection"]
                      ELSE [@ EXCEPT !.pc = "sleeping",
                                     !.wake = now + a.wait_time]]
        /\ UNCHANGED <<now, otherVars, resolverVars>>

\* time.sleep(wait_time) returns: retries += 1, and the loop goes on or
\* acquire returns False and get_historical_data None.
FetchWake ==
    \E c \in LimiterCallers :
        /\ callers[c].pc = "sleeping"
        /\ now >= callers[c].wake
        /\ callers' = [callers EXCEPT ![c] =
                           IF @.retries + 1 < max_retries
                           THEN [@ EXCEPT !.pc = "acquire", !.retries = @ + 1]
                           ELSE [Idle EXCEPT !.result = "rate_limited"]]
        /\ UNCHANGED <<now, rate_limiter, otherVars, resolverVars>>

\* One turn of the loop of acquire_connection by the caller c.
SlotPollBy(c) ==
    /\ callers[c].pc = "acquire_connection"
    /\ rate_limiter' = acquire_connection(rate_limiter)
    /\ callers' = [callers EXCEPT ![c].pc =
                       IF rate_limiter.active_connections < max_connections
                       THEN "holding" ELSE "sleeping_connection"]
    /\ UNCHANGED <<now, otherVars, resolverVars>>

\* The try block of get_historical_data ends, in any of its ways, and the
\* finally clause releases the slot.
FetchReturn ==
    \E c \in LimiterCallers, outcome \in FetchOutcomes :
        /\ callers[c].pc = "holding"
        /\ rate_limiter' = release_connection(rate_limiter)
        /\ callers' = [callers EXCEPT ![c] = [Idle EXCEPT !.result = outcome]]
        /\ UNCHANGED <<now, otherVars, resolverVars>>

\* Half a second passes.
LimiterClock ==
    /\ now + 500 <= MaxLimiterClock
    /\ now' = now + 500
    /\ UNCHANGED <<limiterVars, otherVars, resolverVars>>

NextLimiter ==
    \/ FetchCall
    \/ FetchAcquire
    \/ FetchWake
    \/ \E c \in LimiterCallers : SlotPollBy(c)
    \/ FetchReturn
    \/ LimiterClock

SpecLimiter == Init /\ [][NextLimiter]_vars

\* The callers that hold a connection slot.
Holders == {c \in Callers : callers[c].pc = "holding"}

\* C22: acquire never blocks for good.  A call sleeps at most max_retries
\* times, each time at most the time one token takes to refill, and then
\* has returned; the level of the bucket stays between 0 and the burst; a
\* turn that returns True takes exactly one token from the refilled bucket,
\* and a turn that does not, like the sleep after it and the return of
\* False, takes none.
C22_AcquireBounded ==
    /\ [](/\ rate_limiter.tokens >= 0
          /\ rate_limiter.tokens <= 1000 * max_requests_per_second
          /\ \A c \in Callers :
                 /\ callers[c].retries < max_retries
                 /\ callers[c].pc = "sleeping" =>
                        callers[c].wake <= now + 1000 \div max_requests_per_second)
    /\ [][\A c \in Callers :
              LET level == Min(1000 * max_requests_per_second,
                               rate_limiter.tokens
                                   + (now - rate_limiter.last_update)
                                         * max_requests_per_second)
              IN  /\ (callers[c].pc = "acquire" /\ callers'[c].pc = "acquire_connection")
                         => level >= 1000 /\ rate_limiter'.tokens = level - 1000
                  /\ (callers[c].pc = "acquire" /\ callers'[c].pc = "sleeping")
                         => level < 1000 /\ rate_limiter'.tokens = level
                  /\ (callers[c].pc = "sleeping" /\ callers'[c] # callers[c])
                         => /\ rate_limiter' = rate_limiter
                            /\ \/ callers'[c].pc = "acquire"
                               \/ /\ callers'[c] = [Idle EXCEPT !.result = "rate_limited"]
                                  /\ callers[c].retries = max_retries - 1]_vars

\* C22 witness: one caller has been refused after its third sleep, at the
\* last millisecond of the clock, while the other took a token and holds a
\* connection.
C22_Witness ==
    /\ \E c \in Callers : callers[c].result = "rate_limited" /\ callers[c].pc = "idle"
    /\ \E c \in Callers : callers[c].pc = "holding"
    /\ now = MaxLimiterClock

\* C24: a fetch leaves the count of held slots as it found it, however it
\* returns: the count is at every moment the number of callers inside the
\* part of the fetch that holds a slot, a caller that has returned (not
\* connected, no token, no security id, exception, failure, success) holds
\* none, and the return itself gives back at most the slot the caller took.
C24_SlotReleasedOnEveryPath ==
    /\ [](rate_limiter.active_connections = Cardinality(Holders))
    /\ [][\A c \in Callers :
              (callers[c].pc # "idle" /\ callers'[c].pc = "idle") =>
                  rate_limiter'.active_connections =
                      rate_limiter.active_connections
                          - (IF callers[c].pc = "holding" THEN 1 ELSE 0)]_vars

\* C24 witness: fetches have returned without a token and after an exception
\* of the broker call, and no slot is held.
C24_Witness ==
    /\ \E c \in Callers : callers[c].result = "rate_limited" /\ callers[c].pc = "idle"
    /\ \E c \in Callers : callers[c].result = "exception" /\ callers[c].pc = "idle"
    /\ rate_limiter.active_connections = 0


-----------------------------------------------------------------------------
(* The connection slots under callers that take and give them back, each    *)
(* thread being scheduled again and again.                                  *)

\* A thread calls acquire_connection.
SlotCall ==
    \E c \in Callers :
        /\ callers[c].pc = "idle"
        /\ callers' = [callers EXCEPT ![c].pc = "acquire_connection"]
        /\ UNCHANGED <<now, rate_limiter, otherVars, resolverVars>>

\* time.sleep(0.1) of acquire_connection returns in the thread c.
SlotWakeBy(c) ==
    /\ callers[c].pc = "sleeping_connection"
    /\ callers' = [callers EXCEPT ![c].pc = "acquire_connection"]
    /\ UNCHANGED <<now, rate_limiter, otherVars, resolverVars>>

\* The holder c calls release_connection.
SlotReleaseBy(c) ==
    /\ callers[c].pc = "holding"
    /\ rate_limiter' = release_connection(rate_limiter)
    /\ callers' = [callers EXCEPT ![c].pc = "idle"]
    /\ UNCHANGED <<now, otherVars, resolverVars>>

NextSlots ==
    \/ SlotCall
    \/ \E c \in Callers : SlotPollBy(c) \/ SlotWakeBy(c) \/ SlotReleaseBy(c)

\* Every thread inside acquire_connection keeps running, and every holder
\* releases its slot in the end.
SpecSlots ==
    /\ Init
    /\ [][NextSlots]_vars
    /\ \A c \in Callers :
           /\ WF_vars(SlotPollBy(c))
           /\ WF_vars(SlotWakeBy(c))
           /\ WF_vars(SlotReleaseBy(c))

\* C23: under every interleaving the count of held slots stays between 0
\* and max_connections and is the number of holders, acquire_connection
\* returns only by taking a slot that was free, and a caller inside
\* acquire_connection returns in the end, every holder releasing in the end.
C23_ConnectionSlotBound ==
    /\ [](/\ rate_limiter.active_connections >= 0
          /\ rate_limiter.active_connections <= max_connections
          /\ rate_limiter.active_connections = Cardinality(Holders))
    /\ [][\A c \in Callers :
              (callers[c].pc # "holding" /\ callers'[c].pc = "holding") =>
                  /\ rate_limiter.active_connections < max_connections
                  /\ rate_limiter'.active_connections =
                         rate_limiter.active_connections + 1]_vars
    /\ \A c \in Callers :
           (callers[c].pc \in {"acquire_connection", "sleeping_connection"})
               ~> (callers[c].pc = "holding")


-----------------------------------------------------------------------------
(* The ledger written by one thread and read by another: order_manager.py   *)
(* takes no lock, so a read may fall between two statements of              *)
(* replace_order_id or update_order_status, and a write between the test    *)
(* and the lookup of get_stock_orders.  inflight names the call the writer  *)
(* is in, the ledger at its start (before) and the ledger it ends with      *)
(* (after); callers[1] is the reader.                                       *)

LedgerCalls == {"replace_order_id", "update_order_status"}

\* create_order, between two other calls of the writer.
RaceCreateOrder ==
    /\ inflight = NoOperation
    /\ IndexSize(Ledger) < MaxRaceOrders
    /\ LCreateOrder

\* replace_order_id up to `order = self.orders.pop(temp_id)`.
ReplaceCall ==
    \E temp_id \in DOMAIN orders :
        /\ inflight = NoOperation
        /\ temp_id.kind = "TEMP"
        /\ FreshBrokerIds # {}
        /\ LET actual_id == CHOOSE x \in FreshBrokerIds :
                                \A y \in FreshBrokerIds : x.n <= y.n
           IN  inflight' =
                   [op |-> "replace_order_id", pc |-> 1, order_id |-> temp_id,
                    actual_id |-> actual_id,
                    order |-> [orders[temp_id] EXCEPT !.order_id = actual_id],
                    before |-> Ledger,
                    after |-> replace_order_id(Ledger, temp_id, actual_id)]
        /\ orders' = DictPop(orders, temp_id)
        /\ UNCHANGED <<stock_orders, now, settings, mult, active_stocks,
                       started_symbols, running, pnl_global, broker_seq,
                       market_open, settings_input, stopouts,
                       reconnect_attempts, feed, loop_fault, limiterVars, resolverVars>>

\* The next statement of replace_order_id: self.orders[actual_id] = order,
\* then the entry of the symbol's list.
ReplaceStep ==
    /\ inflight.op = "replace_order_id"
    /\ IF inflight.pc = 1
       THEN /\ orders' = DictPut(orders, inflight.actual_id, inflight.order)
            /\ inflight' = [inflight EXCEPT !.pc = 2]
            /\ UNCHANGED stock_orders
       ELSE LET symbol == inflight.order.symbol
                ids == stock_orders[symbol]
            IN  /\ stock_orders' =
                       IF InSeq(ids, inflight.order_id)
                       THEN [stock_orders EXCEPT
                                 ![symbol][IndexOf(ids, inflight.order_id)] =
                                     inflight.actual_id]
                       ELSE stock_orders
                /\ inflight' = NoOperation
                /\ UNCHANGED orders
    /\ UNCHANGED <<now, settings, mult, active_stocks, started_symbols, running,
                   pnl_global, broker_seq, market_open, settings_input, stopouts,
                   reconnect_attempts, feed, loop_fault, limiterVars, resolverVars>>

\* update_order_status up to `order.status = status`.
UpdateCall ==
    \E order_id \in DOMAIN orders, u \in StatusUpdates :
        /\ inflight = NoOperation
        /\ inflight' =
               [op |-> "update_order_status", pc |-> 1, order_id |-> order_id,
                executed_price |-> u[2], executed_quantity |-> u[3],
                before |-> Ledger,
                after |-> update_order_status(Ledger, order_id, u[1], u[2], u[3], "")]
        /\ orders' = [orders EXCEPT ![order_id].status = u[1]]
        /\ UNCHANGED <<stock_orders, now, settings, mult, active_stocks,
                       started_symbols, running, pnl_global, broker_seq,
                       market_open, settings_input, stopouts,
                       reconnect_attempts, feed, loop_fault, limiterVars, resolverVars>>

\* The next statement of update_order_status: executed_price, then
\* executed_quantity and error_message.
UpdateStep ==
    /\ inflight.op = "update_order_status"
    /\ IF inflight.pc = 1
       THEN /\ orders' = [orders EXCEPT ![inflight.order_id].executed_price =
                                             inflight.executed_price]
            /\ inflight' = [inflight EXCEPT !.pc = 2]
       ELSE /\ orders' = [orders EXCEPT
                              ![inflight.order_id].executed_quantity =
                                  inflight.executed_quantity,
                              ![inflight.order_id].error_message = ""]
            /\ inflight' = NoOperation
    /\ UNCHANGED <<stock_orders, now, settings, mult, active_stocks,
                   started_symbols, running, pnl_global, broker_seq, market_open,
                   settings_input, stopouts, reconnect_attempts, feed,
                   loop_fault, limiterVars, resolverVars>>

\* The reader, in the list comprehension of get_stock_orders, has found
\* `oid in self.orders` true for an identifier of the symbol's list.
ReadTest ==
    \E s \in Symbols, i \in 1..MaxRaceOrders :
        /\ callers[1].pc = "idle"
        /\ i <= Len(stock_orders[s])
        /\ stock_orders[s][i] \in DOMAIN orders
        /\ callers' = [callers EXCEPT ![1] =
                           [pc |-> "get_stock_orders", retries |-> 0, wake |-> 0,
                            result |-> "none", oid |-> stock_orders[s][i]]]
        /\ UNCHANGED <<rate_limiter, now, otherVars, resolverVars>>

\* The reader evaluates self.orders[oid].
ReadLookup ==
    /\ callers[1].pc = "get_stock_orders"
    /\ callers' = [callers EXCEPT ![1] =
                       [Idle EXCEPT !.result =
                            IF callers[1].oid \in DOMAIN orders THEN "order"
                            ELSE "KeyError"]]
    /\ UNCHANGED <<rate_limiter, now, otherVars, resolverVars>>

NextLedgerRace ==
    \/ RaceCreateOrder
    \/ ReplaceCall
    \/ ReplaceStep
    \/ UpdateCall
    \/ UpdateStep
    \/ ReadTest
    \/ ReadLookup

SpecLedgerRace == Init /\ [][NextLedgerRace]_vars

\* C26: a read of calculate_average_entry or get_total_quantity that falls
\* into a replace_order_id or update_order_status returns what it would have
\* returned before the call or what it returns after it, for every symbol
\* and side; and a read that a write falls into returns as well, instead of
\* failing on an identifier that has just been taken out.
C26_AtomicLedgerMutations ==
    /\ inflight.op \in LedgerCalls =>
           \A s \in Symbols, side \in Sides :
               /\ calculate_average_entry(Ledger, s, side) \in
                      {calculate_average_entry(inflight.before, s, side),
                       calculate_average_entry(inflight.after, s, side)}
               /\ get_total_quantity(Ledger, s, side) \in
                      {get_total_quantity(inflight.before, s, side),
                       get_total_quantity(inflight.after, s, side)}
    /\ callers[1].result # "KeyError"


-----------------------------------------------------------------------------
(* update_settings while ticks arrive: POST /api/settings runs on the event *)
(* loop of the main thread, process_tick on the feed's thread, and neither  *)
(* takes a lock.  update_settings is taken apart at its assignments: the    *)
(* settings object, then the four multipliers of _update_multipliers.       *)

RaceSettingsInputs ==
    {BaseSettings,
     [BaseSettings EXCEPT !.add_on_percentage = 10, !.trailing_stop_loss_pct = 10]}

\* The multipliers in the order _update_multipliers assigns them.
MultiplierNames == <<"add_on_mult", "init_sl_mult", "tsl_mult", "target_mult">>

\* update_settings up to `self.settings = new_settings`.
UpdateSettingsCall ==
    \E raw \in RaceSettingsInputs :
        /\ inflight = NoOperation
        /\ settings_input' = raw
        /\ settings' = _normalize_settings(raw)
        /\ inflight' = [NoOperation EXCEPT !.op = "update_settings", !.pc = 1]
        /\ UNCHANGED <<ledgerVars, mult, active_stocks, started_symbols, running,
                       pnl_global, broker_seq, market_open, stopouts,
                       reconnect_attempts, feed, loop_fault, limiterVars, resolverVars>>

\* The next assignment of _update_multipliers.
UpdateMultiplier ==
    /\ inflight.op = "update_settings"
    /\ LET name == MultiplierNames[inflight.pc]
       IN  mult' = [mult EXCEPT ![name] = _update_multipliers(settings)[name]]
    /\ inflight' = IF inflight.pc = Len(MultiplierNames) THEN NoOperation
                   ELSE [inflight EXCEPT !.pc = @ + 1]
    /\ UNCHANGED <<ledgerVars, settings, settings_input, active_stocks,
                   started_symbols, running, pnl_global, broker_seq, market_open,
                   stopouts, reconnect_attempts, feed, loop_fault, limiterVars, resolverVars>>

\* One turn of the main loop, between two handlers of the event loop.
SettingsControlLoop ==
    /\ inflight = NoOperation
    /\ ControlLoopOf(Accepting(Engine), MaxRaceTrades)

NextSettingsRace ==
    \/ StartStrategy
    \/ UpdateSettingsCall
    \/ UpdateMultiplier
    \/ SettingsControlLoop
    \/ RaceTick

SpecSettingsRace == Init /\ [][NextSettingsRace]_vars

\* C27: in every state of a running session the four multipliers are the
\* percentages of the settings the engine holds in that state, so that a
\* tick handled in that state reads settings and multipliers of one version.
C27_MultipliersMatchSettings == running => mult = _update_multipliers(settings)


-----------------------------------------------------------------------------
(* One ladder climbed: the price of A rises past the add-on trigger and     *)
(* past the target, or falls to the stop.                                   *)

LadderTicks ==
    {[symbol |-> "A", ltp |-> p, volume |-> 1000000] :
         p \in {90, 110, 120, 130, 150}}

\* The settings of the session: with room for one add-on, and with none.
LadderSettingsInputs == {BaseSettings, [BaseSettings EXCEPT !.no_of_add_ons = 0]}

\* POST /api/settings before the session is started.
LadderSettings ==
    /\ ~running
    /\ \E raw \in LadderSettingsInputs : update_settings(raw)

LadderControlLoop == ControlLoopOf(Engine, MaxLadderTrades)

LadderTick == TickOf(Engine, LadderTicks, MaxLadderTrades)

NextLadder ==
    \/ LadderSettings
    \/ StartStrategy
    \/ LadderControlLoop
    \/ LadderTick

SpecLadder == Init /\ [][NextLadder]_vars

-----------------------------------------------------------------------------
(* Claims about shutdown, the order of a tick's tests and the ladder *)

\* C31: when the main loop finds, while running, that market hours have
\* ended, its turn squares every position off, halts the feed and clears the
\* running flag, so that the loop ends and takes no further turn.
C31_MarketCloseShutdown ==
    (running /\ ~loop_fault /\ ~market_open) =>
        \A e \in calculate_pnl(Engine) :
            \A f \in MarketCloseBranch(e) :
                /\ \A s \in DOMAIN f.active_stocks :
                       f.active_stocks[s].quantity = 0
                /\ f.feed.state # "open"
                /\ ~f.running


\* The orders a handler has filed for the symbol s on the way from E to e.
OrdersFiled(E, e, s) ==
    [i \in 1..(Len(e.stock_orders[s]) - Len(E.stock_orders[s])) |->
        e.orders[e.stock_orders[s][Len(E.stock_orders[s]) + i]]]

\* C32: a tick for an open position tests the target first: when the price
\* has reached it, the tick places the closing order and no other (no flip,
\* no add-on) and leaves the position closed with status CLOSED_PROFIT; the
\* stop is tested only otherwise, and a tick the stop fires on places no
\* add-on order: it files the closing order first, and an order on the side
\* of the leg only as the third, after the entry of the opposite leg.
C32_TargetBeforeStopBeforeAddOn ==
    running =>
        \A t \in LadderTicks :
            (/\ t.symbol \in DOMAIN active_stocks
             /\ active_stocks[t.symbol].status = "ACTIVE"
             /\ active_stocks[t.symbol].mode # "NONE") =>
                LET s == t.symbol
                    stock == active_stocks[s]
                    sign == Sign(stock.mode)
                    entry_side == IF stock.mode = "LONG" THEN "BUY" ELSE "SELL"
                    target_hit == sign * (t.ltp * 100 - stock.target) >= 0
                    stop_hit == sign * (t.ltp * 100 - stock.stop_loss) <= 0
                IN  \A e \in process_tick(Engine, s, t.ltp, t.volume) :
                        LET filed == OrdersFiled(Engine, e, s)
                        IN  /\ target_hit =>
                                /\ Len(filed) = 1
                                /\ filed[1].transaction_type # entry_side
                                /\ filed[1].quantity = stock.quantity
                                /\ e.active_stocks[s].mode = "NONE"
                                /\ e.active_stocks[s].status = "CLOSED_PROFIT"
                            /\ (~target_hit /\ stop_hit) =>
                                /\ Len(filed) >= 1
                                /\ filed[1].transaction_type # entry_side
                                /\ filed[1].quantity = stock.quantity
                                /\ \A i \in 1..Len(filed) :
                                       filed[i].transaction_type = entry_side
                                           => i = 3


\* What a tick that fires neither the target nor the stop does to the
\* ladder: it files at most one add-on order; an add-on the broker accepted
\* raises ladder_level by one, adds its quantity and moves the trigger to
\* price * (1 +/- add_on_pct); otherwise level, quantity and trigger stay.
LadderStepsOfTick ==
    running =>
        \A t \in LadderTicks :
            (/\ t.symbol \in DOMAIN active_stocks
             /\ active_stocks[t.symbol].status = "ACTIVE"
             /\ active_stocks[t.symbol].mode # "NONE") =>
                LET s == t.symbol
                    stock == active_stocks[s]
                    sign == Sign(stock.mode)
                    entry_side == IF stock.mode = "LONG" THEN "BUY" ELSE "SELL"
                    target_hit == sign * (t.ltp * 100 - stock.target) >= 0
                    stop_hit == sign * (t.ltp * 100 - stock.stop_loss) <= 0
                IN  (~target_hit /\ ~stop_hit) =>
                        \A e \in process_tick(Engine, s, t.ltp, t.volume) :
                            LET filed == OrdersFiled(Engine, e, s)
                                add_ons == SelectSeq(filed,
                                    LAMBDA o : o.transaction_type = entry_side)
                                after == e.active_stocks[s]
                                accepted == add_ons # <<>>
                                            /\ add_ons[1].status = "EXECUTED"
                            IN  /\ Len(add_ons) <= 1
                                /\ after.ladder_level =
                                       stock.ladder_level
                                           + (IF accepted THEN 1 ELSE 0)
                                /\ after.next_add_on =
                                       IF accepted
                                       THEN Level(t.ltp, sign,
                                                  settings.add_on_percentage)
                                       ELSE stock.next_add_on
                                /\ after.mode # "NONE" =>
                                       after.quantity =
                                           stock.quantity
                                               + (IF accepted
                                                  THEN add_ons[1].quantity
                                                  ELSE 0)

\* C33 as stated: an open leg has ladder_level at least 1 and at most the
\* configured number of add-ons, and a tick climbs the ladder by at most one
\* accepted add-on.
C33_LadderWithinAddOns ==
    /\ \A s \in DOMAIN active_stocks :
           active_stocks[s].mode # "NONE" =>
               /\ active_stocks[s].ladder_level >= 1
               /\ active_stocks[s].ladder_level <= settings.no_of_add_ons
    /\ LadderStepsOfTick

\* C33 amended: an open leg has ladder_level at least 1 and at most
\* max(1, no_of_add_ons), the settings being those the session was started
\* with, and a tick climbs the ladder by at most one accepted add-on.
C33_LadderBound ==
    /\ \A s \in DOMAIN active_stocks :
           active_stocks[s].mode # "NONE" =>
               /\ active_stocks[s].ladder_level >= 1
               /\ active_stocks[s].ladder_level <= Max(1, settings.no_of_add_ons)
    /\ LadderStepsOfTick

\* C33 witness: a long leg whose entry the broker accepted has climbed to
\* the configured level through an accepted add-on, and another add-on order
\* of the leg was not accepted.
C33_Witness ==
    \E s \in DOMAIN active_stocks :
        /\ active_stocks[s].mode = "LONG"
        /\ active_stocks[s].ladder_level = 2
        /\ active_stocks[s].ladder_level = settings.no_of_add_ons
        /\ Len(stock_orders[s]) = 3
        /\ \A i \in 1..3 : stock_orders[s][i] \in DOMAIN orders
        /\ \A i \in 1..3 : orders[stock_orders[s][i]].transaction_type = "BUY"
        /\ orders[stock_orders[s][1]].status = "EXECUTED"
        /\ \E i, j \in 2..3 :
               /\ orders[stock_orders[s][i]].status = "PENDING"
               /\ orders[stock_orders[s][j]].status = "EXECUTED"


-----------------------------------------------------------------------------
(* Claims about what the engine holds and what the broker accepted *)

\* C34: an order the broker does not accept (a failure result, or no result
\* because the order never reached it) leaves the held quantity and the mode
\* of the position as they were: a closing order that was not accepted does
\* not clear the position, an entry or add-on order that was not accepted
\* does not add to it.
C34_QuantityTracksBroker ==
    \A s \in DOMAIN active_stocks :
        \A dt \in EngineClockSteps, resp \in Refusals :
            LET stock == active_stocks[s]
            IN  /\ stock.quantity > 0 =>
                    LET e == ClosedWith(Engine, s, dt, resp)
                    IN  /\ e.active_stocks[s].quantity = stock.quantity
                        /\ e.active_stocks[s].mode = stock.mode
                /\ (stock.quantity > 0 /\ stock.mode # "NONE") =>
                    LET e == AddedOnWith(Engine, s, stock.mode, dt, resp)
                    IN  /\ e.active_stocks[s].quantity = stock.quantity
                        /\ e.active_stocks[s].mode = stock.mode
                /\ (stock.status = "IDLE" /\ ~SessionCapReached(Engine, s)) =>
                    \A mode \in {"LONG", "SHORT"} :
                        LET e == StartedWith(Engine, s, mode, dt, resp)
                        IN  /\ e.active_stocks[s].quantity = 0
                            /\ e.active_stocks[s].mode = "NONE"


\* Every order filed for the symbol was accepted by the broker and recorded
\* as executed.
AllAccepted(s) ==
    \A i \in 1..Len(stock_orders[s]) :
        LET oid == stock_orders[s][i]
        IN  /\ oid \in DOMAIN orders
            /\ oid.kind = "ORD"
            /\ orders[oid].status = "EXECUTED"

\* C35: where the broker has accepted every order of a symbol, the ledger
\* holds no executed order of the symbol once its position is closed, and
\* for an open leg the fills the ledger averages on the leg's side are the
\* fills of this leg: their quantities add up to the quantity held, and
\* before the first add-on their average is the entry price.
C35_LegUsesOwnFills ==
    \A s \in DOMAIN active_stocks :
        LET stock == active_stocks[s]
            side == IF stock.mode = "LONG" THEN "BUY" ELSE "SELL"
        IN  AllAccepted(s) =>
                /\ stock.mode = "NONE" => get_executed_orders(Ledger, s) = <<>>
                /\ stock.mode # "NONE" =>
                       /\ get_total_quantity(Ledger, s, side) = stock.quantity
                       /\ stock.ladder_level = 1 =>
                              calculate_average_entry(Ledger, s, side) =
                                  Frac(stock.entry_price, 1)


\* C36: between two operations a position has status ACTIVE exactly when its
\* mode is LONG or SHORT; a stop-out whose flip entry is not made leaves no
\* position ACTIVE with mode NONE.
C36_StatusAgreesWithMode ==
    \A s \in DOMAIN active_stocks :
        (active_stocks[s].status = "ACTIVE")
            <=> (active_stocks[s].mode \in {"LONG", "SHORT"})


\* C37: while the closing order of a leg is at the broker (square_off_all
\* has filed it and waits in place_order), no other step files a closing
\* order for the same leg, that is, an order for the symbol on the closing
\* side over the quantity the leg holds.
C37_OneClosingOrderPerLeg ==
    [][(inflight.op = "close" /\ inflight'.op = "close") =>
          LET s == inflight.symbol
              n == Len(stock_orders[s])
              closing_side == IF inflight.mode = "LONG" THEN "SELL" ELSE "BUY"
          IN  Len(stock_orders'[s]) > n =>
                  LET order == orders'[stock_orders'[s][n + 1]]
                  IN  ~(/\ order.transaction_type = closing_side
                        /\ order.quantity = inflight.qty)]_vars


\* C38: a message of the stream is handed to the engine's tick handler at
\* most once, whatever the handler raises: while the feed is open and the
\* engine runs, no outcome of _on_tick has called the callback twice.
C38_TickDeliveredOnce ==
    (running /\ feed.state = "open") =>
        \A tick_data \in RawTicks, faults \in HandlerFaults :
            \A r \in _on_tick(Engine, tick_data, faults) : r.calls <= 1


-----------------------------------------------------------------------------
(* Symbols and security ids: the scrip master connect loads, the reverse    *)
(* map built from it, and the cached lookup of get_security_id.             *)

\* What get_security_id returns for a symbol the map does not resolve.
NoSecurityId == 0

\* The scrip masters a download may deliver, as trading symbol -> security
\* id: one with bare symbols, one that lists A with the equity suffix, and a
\* later one in which A has a new id.  Ids are unique within a master.
Masters ==
    {("A" :> 1) @@ ("B" :> 2),
     ("A-EQ" :> 1) @@ ("B" :> 2),
     ("A" :> 3) @@ ("B" :> 2)}

\* The symbols callers look up: those the engine tracks, and A as listed.
LookupSymbols == Symbols \cup {"A-EQ"}

\* _build_reverse_mapping: {int(v): k for k, v in symbol_map.items()}.
_build_reverse_mapping(map) ==
    [sid \in {map[k] : k \in DOMAIN map} |->
         CHOOSE k \in DOMAIN map : map[k] = sid]

\* The body of get_security_id: the direct match, then the match with
\* '-EQ' appended, then None.
get_security_id(map, symbol) ==
    IF symbol \in DOMAIN map THEN map[symbol]
    ELSE IF (symbol \o "-EQ") \in DOMAIN map THEN map[symbol \o "-EQ"]
    ELSE NoSecurityId

\* get_security_id behind lru_cache: the stored result when the symbol was
\* looked up before, the body's result otherwise.
CachedSecurityId(cache, map, symbol) ==
    IF symbol \in DOMAIN cache THEN cache[symbol]
    ELSE get_security_id(map, symbol)

\* _on_tick, line 355: the key under which a tick with this security id is
\* handed to the callback; "None" stands for no call.
TickKey(map, sid) == IF sid \in DOMAIN map THEN map[sid] ELSE "None"

\* connect, lines 150-154: fetch_security_mapping stores the map of the
\* download, or logs and leaves the map as it is when the download fails,
\* and _build_reverse_mapping follows.  The cache is not touched.
ConnectGateway ==
    \E fetched \in Masters \cup {symbol_map} :
        /\ symbol_map' = fetched
        /\ id_map' = _build_reverse_mapping(fetched)
        /\ UNCHANGED <<sid_cache, ledgerVars, limiterVars, otherVars>>

\* A call of get_security_id (subscribe, place_order, get_historical_data):
\* a first lookup of a symbol stores its result.
LookupSecurityId ==
    \E symbol \in LookupSymbols :
        /\ symbol \notin DOMAIN sid_cache
        /\ sid_cache' = DictPut(sid_cache, symbol,
                                get_security_id(symbol_map, symbol))
        /\ UNCHANGED <<symbol_map, id_map, ledgerVars, limiterVars,
                       otherVars>>

NextSymbols ==
    \/ ConnectGateway
    \/ LookupSecurityId

SpecSymbols == Init /\ [][NextSymbols]_vars

\* C39: every symbol get_security_id resolves, directly or with '-EQ'
\* appended, is the key under which a tick with the resolved id is handed to
\* the engine; and every cached lookup equals what the symbol map of the
\* moment yields.
C39_SymbolIdRoundTrip ==
    /\ \A s \in LookupSymbols :
           LET sid == get_security_id(symbol_map, s)
           IN  sid # NoSecurityId => TickKey(id_map, sid) = s
    /\ \A s \in DOMAIN sid_cache :
           sid_cache[s] = get_security_id(symbol_map, s)


\* C40: a start of the strategy that follows a stop resets no position that
\* holds a quantity (every order of which the broker has accepted) to IDLE,
\* quantity 0 and mode NONE unless a closing order is placed for it, and
\* leaves no more positions open than max_ladder_stocks.
C40_RestartKeepsPositions ==
    [][(~running /\ running') =>
          /\ \A s \in DOMAIN active_stocks :
                 (active_stocks[s].quantity > 0 /\ AllAccepted(s)) =>
                     \/ ~(/\ active_stocks'[s].status = "IDLE"
                          /\ active_stocks'[s].quantity = 0
                          /\ active_stocks'[s].mode = "NONE")
                     \/ Len(stock_orders'[s]) > Len(stock_orders[s])
          /\ OpenCount(active_stocks') <= settings'.max_ladder_stocks]_vars

=============================================================================
